---------------------------- MODULE Spec2Model ----------------------------
(***************************************************************************)
(* Verification model of njs-modbus: the server (ModbusSlave) dispatch and *)
(* function-code handlers, and the client (ModbusMaster) request/response  *)
(* discipline over the RTU application layer.                              *)
(*                                                                         *)
(* Bytes are integers 0..255, buffers are sequences of bytes, ADUs are     *)
(* records [unit, fc, data].  JavaScript strings that the code inspects    *)
(* (error messages) are sequences of one-character strings.                *)
(***************************************************************************)
EXTENDS Integers, Sequences, FiniteSets, TLC

VARIABLES
    \* ---- server (ModbusSlave) ----
    models,      \* this.models: insertion-ordered sequence of model records
    rx,          \* <<>> or <<frame>>: the frame whose dispatches are followed
    tasks,       \* one record per model the frame was dispatched to
    sent,        \* buffers handed to the transport's reply closure (_response)
    \* ---- client (ModbusMaster over RtuApplicationLayer) ----
    reqs,        \* one record per request issued (promise, timer, position)
    waiting,     \* RtuApplicationLayer._waitingResponse: <<>> or <<i>>, the wait of request i
    bufferRx,    \* RtuApplicationLayer._bufferRx
    timerThreePointFive, \* RtuApplicationLayer._timerThreePointFive is armed
    written,     \* buffers handed to physicalLayer.write
    emitted,     \* 'framing' events emitted by the application layer
    open,        \* physicalLayer.isOpen
    destroyed,   \* physicalLayer.destroyed: destroy() was called
    \* ---- an application layer (RTU, ASCII or TCP) and the wait of a client ----
    layer,       \* the fields of the application layer constructed, see NoLayer
    log,         \* what the layer delivered: 'framing' events and callback calls
    encoded,     \* <<>> or the last call of the TCP layer's encode: its ADU, the
                 \* transaction counter before the call, the buffer returned
    inbound,     \* the byte stream the transport is delivering to the layer, how
                 \* many of its bytes were delivered, in how many bursts, and how
                 \* many before the last close or startWaitingResponse
    \* ---- one request handled to its end, every callback resolving ----
    ex           \* the request, what the server called and sent, what the client made of
                 \* it; or the arguments and the result of a call of checkRange

slaveVars  == <<models, rx, tasks, sent>>
masterVars == <<reqs, waiting, bufferRx, timerThreePointFive, written, emitted, open, destroyed>>
layerVars  == <<layer, log, encoded, inbound>>
exchangeVars == <<ex>>
vars       == <<models, rx, tasks, sent, reqs, waiting, bufferRx, timerThreePointFive, written,
               emitted, open, destroyed, layer, log, encoded, inbound, ex>>

-----------------------------------------------------------------------------
(* Generic helpers                                                         *)

Range(s) == {s[i] : i \in 1..Len(s)}

U16(n) == <<n \div 256, n % 256>>

\* Buffer.readUInt16BE(off) on a 0-based offset
readUInt16BE(buf, off) == buf[off + 1] * 256 + buf[off + 2]

\* Math.ceil(a / b) for b > 0
Ceil(a, b) == (a + b - 1) \div b

\* frame.fc | 0x80 for an 8-bit function code
Or80(fc) == IF (fc \div 128) % 2 = 1 THEN fc ELSE fc + 128

\* the concatenation of a sequence of sequences, by halves
RECURSIVE Flatten(_)
Flatten(ss) ==
    IF ss = <<>> THEN <<>>
    ELSE IF Len(ss) = 1 THEN ss[1]
    ELSE Flatten(SubSeq(ss, 1, Len(ss) \div 2)) \o Flatten(SubSeq(ss, (Len(ss) \div 2) + 1, Len(ss)))

\* String(n) for a non-negative integer, as a sequence of characters
Digits == <<"0", "1", "2", "3", "4", "5", "6", "7", "8", "9">>

RECURSIVE ToStr(_)
ToStr(n) == IF n < 10 THEN <<Digits[n + 1]>> ELSE ToStr(n \div 10) \o <<Digits[(n % 10) + 1]>>

DigitValue(c) == CHOOSE d \in 0..9 : Digits[d + 1] = c

\* Number(s): the empty string converts to 0, a string of decimal digits to
\* its value, anything else to NaN (represented by -1)
RECURSIVE NumberOf(_)
NumberOf(s) ==
    IF s = <<>> THEN 0
    ELSE IF \E i \in 1..Len(s) : s[i] \notin Range(Digits) THEN -1
    ELSE NumberOf(SubSeq(s, 1, Len(s) - 1)) * 10 + DigitValue(s[Len(s)])

-----------------------------------------------------------------------------
(* error-code.ts                                                           *)

ILLEGAL_FUNCTION      == 1
ILLEGAL_DATA_ADDRESS  == 2
ILLEGAL_DATA_VALUE    == 3
SERVER_DEVICE_FAILURE == 4

ErrorCode == {1, 2, 3, 4, 5, 6, 8, 10, 11}

PREFIX == <<"M", "O", "D", "B", "U", "S", "_", "E", "R", "R", "O", "R", "_", "C", "O", "D", "E", "_">>

\* new Error(PREFIX + code): an Error is represented by its message
getErrorByCode(code) == PREFIX \o ToStr(code)

startsWith(s, p) == Len(s) >= Len(p) /\ SubSeq(s, 1, Len(p)) = p

getCodeByError(err) ==
    IF startsWith(err, PREFIX)
    THEN NumberOf(SubSeq(err, Len(PREFIX) + 1, Len(err)))
    ELSE SERVER_DEVICE_FAILURE

-----------------------------------------------------------------------------
(* utils/checkRange.ts                                                     *)
(* A configured range is [kind, ivs]: kind "undefined" (no range), "single"*)
(* (range is one [lo, hi] pair, ivs = <<pair>>) or "list" (range is an     *)
(* array of pairs, ivs = the pairs).                                       *)

NoRange        == [kind |-> "undefined", ivs |-> <<>>]
Single(lo, hi) == [kind |-> "single", ivs |-> <<<<lo, hi>>>>]
List(ivs)      == [kind |-> "list", ivs |-> ivs]

Every(value, r) == \A i \in 1..Len(value) : value[i] >= r[1] /\ value[i] <= r[2]

checkRange(value, range) ==
    IF range.kind = "single"
    THEN IF range.ivs[1][1] < range.ivs[1][2] THEN Every(value, range.ivs[1]) ELSE TRUE
    ELSE IF range.kind = "list" /\ Len(range.ivs) > 0
    THEN \E i \in 1..Len(range.ivs) :
            range.ivs[i][1] < range.ivs[i][2] /\ Every(value, range.ivs[i])
    ELSE TRUE

-----------------------------------------------------------------------------
(* CRC-16/MODBUS (utils/crc): polynomial 0xA001 reflected, initial value   *)
(* 0xFFFF, computed byte-wise through the usual 256-entry table.           *)

RECURSIVE Xor(_, _)
Xor(a, b) ==
    IF a = 0 THEN b
    ELSE IF b = 0 THEN a
    ELSE ((a + b) % 2) + 2 * Xor(a \div 2, b \div 2)

RECURSIVE CrcShift(_, _)
CrcShift(v, n) ==
    IF n = 0 THEN v
    ELSE CrcShift(IF v % 2 = 1 THEN Xor(v \div 2, 40961) ELSE v \div 2, n - 1)

CrcTable == [i \in 0..255 |-> CrcShift(i, 8)]

\* the bytes of buf folded into acc in order, the buffer taken by halves
RECURSIVE CrcFrom(_, _)
CrcFrom(acc, buf) ==
    IF buf = <<>> THEN acc
    ELSE IF Len(buf) = 1 THEN Xor(acc \div 256, CrcTable[Xor(acc % 256, buf[1])])
    ELSE LET half == CrcFrom(acc, SubSeq(buf, 1, Len(buf) \div 2))
         IN  \* the value after the first half, computed before the second is folded in
             IF half >= 0 THEN CrcFrom(half, SubSeq(buf, (Len(buf) \div 2) + 1, Len(buf)))
             ELSE half

crc(buf) == CrcFrom(65535, buf)

-----------------------------------------------------------------------------
(* RtuApplicationLayer.encode                                              *)

\* Buffer.writeUInt8 throws ERR_OUT_OF_RANGE for a value outside 0..255
encodeThrows(adu) ==
    \/ adu.unit > 255
    \/ adu.fc > 255
    \/ \E i \in 1..Len(adu.data) : adu.data[i] > 255

\* unit, fc, data, then the CRC of those bytes, low byte first
encode(adu) ==
    LET body == <<adu.unit, adu.fc>> \o adu.data
    IN  body \o <<crc(body) % 256, crc(body) \div 256>>

-----------------------------------------------------------------------------
(* ModbusSlave: function-code handlers.                                    *)
(* A model is [unit, has, addressRange]: unit is a number or "undefined",  *)
(* has is the set of callbacks the model defines ("interceptor" included). *)
(* A handler's synchronous part yields a plan:                             *)
(*   Drop         the frame is ignored, nothing is called or sent          *)
(*   Err(code)    responseError(frame, response, getErrorByCode(code))     *)
(*   Call(calls)  the model callbacks invoked, in order; each call is      *)
(*                [name, address, value] with value a sequence of numbers  *)
(*                (the length of a read, the values of a write, booleans   *)
(*                as 0/1)                                                  *)

Drop        == [kind |-> "drop", code |-> 0, calls |-> <<>>]
Err(code)   == [kind |-> "error", code |-> code, calls |-> <<>>]
Call(calls) == [kind |-> "call", code |-> 0, calls |-> calls]

Invoke(name, address, value) ==
    [name |-> name, address |-> address, value |-> value,
     out |-> "pending", err |-> <<>>, ret |-> <<>>]

BitAtMsbFirst(buf, off, index) == (buf[off + (index \div 8) + 1] \div (2 ^ (7 - (index % 8)))) % 2

\* (bufferRx[5 + ~~(index / 8)] & (1 << index % 8)) > 0, index 0-based
BitAt(buf, off, index) == (buf[off + (index \div 8) + 1] \div (2 ^ (index % 8))) % 2

handleFC1Limit2001(model, frame) ==
    IF Len(frame.data) # 4 THEN Drop
    ELSE IF "readCoils" \notin model.has THEN Err(ILLEGAL_FUNCTION)
    ELSE LET address == readUInt16BE(frame.data, 0)
             length  == readUInt16BE(frame.data, 2)
         IN  IF ~(length >= 1 /\ length <= 2001) THEN Err(ILLEGAL_DATA_VALUE)
             ELSE IF ~checkRange(<<address, address + length>>, model.addressRange.coils)
             THEN Err(ILLEGAL_DATA_ADDRESS)
             ELSE Call(<<Invoke("readCoils", address, <<length>>)>>)

handleFC1(model, frame) ==
    IF Len(frame.data) # 4 THEN Drop
    ELSE IF "readCoils" \notin model.has THEN Err(ILLEGAL_FUNCTION)
    ELSE LET address == readUInt16BE(frame.data, 0)
             length  == readUInt16BE(frame.data, 2)
         IN  IF ~(length >= 1 /\ length <= 2000) THEN Err(ILLEGAL_DATA_VALUE)
             ELSE IF ~checkRange(<<address, address + length>>, model.addressRange.coils)
             THEN Err(ILLEGAL_DATA_ADDRESS)
             ELSE Call(<<Invoke("readCoils", address, <<length>>)>>)

handleFC2(model, frame) ==
    IF Len(frame.data) # 4 THEN Drop
    ELSE IF "readDiscreteInputs" \notin model.has THEN Err(ILLEGAL_FUNCTION)
    ELSE LET address == readUInt16BE(frame.data, 0)
             length  == readUInt16BE(frame.data, 2)
         IN  IF ~(length >= 1 /\ length <= 2000) THEN Err(ILLEGAL_DATA_VALUE)
             ELSE IF ~checkRange(<<address, address + length>>, model.addressRange.discreteInputs)
             THEN Err(ILLEGAL_DATA_ADDRESS)
             ELSE Call(<<Invoke("readDiscreteInputs", address, <<length>>)>>)

handleFC3NoFunctionCheck(model, frame) ==
    IF Len(frame.data) # 4 THEN Drop
    ELSE LET address == readUInt16BE(frame.data, 0)
             length  == readUInt16BE(frame.data, 2)
         IN  IF ~(length >= 1 /\ length <= 125) THEN Err(ILLEGAL_DATA_VALUE)
             ELSE IF "readHoldingRegisters" \notin model.has THEN Err(ILLEGAL_FUNCTION)
             ELSE IF ~checkRange(<<address, address + length>>, model.addressRange.holdingRegisters)
             THEN Err(ILLEGAL_DATA_ADDRESS)
             ELSE Call(<<Invoke("readHoldingRegisters", address, <<length>>)>>)

handleFC3(model, frame) ==
    IF Len(frame.data) # 4 THEN Drop
    ELSE IF "readHoldingRegisters" \notin model.has THEN Err(ILLEGAL_FUNCTION)
    ELSE LET address == readUInt16BE(frame.data, 0)
             length  == readUInt16BE(frame.data, 2)
         IN  IF ~(length >= 1 /\ length <= 125) THEN Err(ILLEGAL_DATA_VALUE)
             ELSE IF ~checkRange(<<address, address + length>>, model.addressRange.holdingRegisters)
             THEN Err(ILLEGAL_DATA_ADDRESS)
             ELSE Call(<<Invoke("readHoldingRegisters", address, <<length>>)>>)

handleFC4(model, frame) ==
    IF Len(frame.data) # 4 THEN Drop
    ELSE IF "readInputRegisters" \notin model.has THEN Err(ILLEGAL_FUNCTION)
    ELSE LET address == readUInt16BE(frame.data, 0)
             length  == readUInt16BE(frame.data, 2)
         IN  IF ~(length >= 1 /\ length <= 125) THEN Err(ILLEGAL_DATA_VALUE)
             ELSE IF ~checkRange(<<address, address + length>>, model.addressRange.inputRegisters)
             THEN Err(ILLEGAL_DATA_ADDRESS)
             ELSE Call(<<Invoke("readInputRegisters", address, <<length>>)>>)

handleFC5(model, frame) ==
    IF Len(frame.data) # 4 THEN Drop
    ELSE IF "writeSingleCoil" \notin model.has THEN Err(ILLEGAL_FUNCTION)
    ELSE LET address == readUInt16BE(frame.data, 0)
             value   == readUInt16BE(frame.data, 2)
         IN  IF ~(value = 0 \/ value = 65280) THEN Err(ILLEGAL_DATA_VALUE)
             ELSE IF ~checkRange(<<address>>, model.addressRange.coils)
             THEN Err(ILLEGAL_DATA_ADDRESS)
             ELSE Call(<<Invoke("writeSingleCoil", address, <<IF value = 65280 THEN 1 ELSE 0>>)>>)

handleFC6(model, frame) ==
    IF Len(frame.data) # 4 THEN Drop
    ELSE IF "writeSingleRegister" \notin model.has THEN Err(ILLEGAL_FUNCTION)
    ELSE LET address == readUInt16BE(frame.data, 0)
             value   == readUInt16BE(frame.data, 2)
         IN  IF ~(value >= 0 /\ value <= 65535) THEN Err(ILLEGAL_DATA_VALUE)
             ELSE IF ~checkRange(<<address>>, model.addressRange.holdingRegisters)
             THEN Err(ILLEGAL_DATA_ADDRESS)
             ELSE Call(<<Invoke("writeSingleRegister", address, <<value>>)>>)

handleFC15(model, frame) ==
    IF ~(Len(frame.data) > 5 /\ Len(frame.data) = 5 + frame.data[5]) THEN Drop
    ELSE IF ~("writeMultipleCoils" \in model.has \/ "writeSingleCoil" \in model.has)
    THEN Err(ILLEGAL_FUNCTION)
    ELSE LET address   == readUInt16BE(frame.data, 0)
             length    == readUInt16BE(frame.data, 2)
             byteCount == frame.data[5]
             value     == [i \in 1..length |-> BitAt(frame.data, 5, i - 1)]
         IN  IF ~(length >= 1 /\ length <= 1968 /\ byteCount = Ceil(length, 8))
             THEN Err(ILLEGAL_DATA_VALUE)
             ELSE IF ~checkRange(<<address, address + length>>, model.addressRange.coils)
             THEN Err(ILLEGAL_DATA_ADDRESS)
             ELSE IF "writeMultipleCoils" \in model.has
             THEN Call(<<Invoke("writeMultipleCoils", address, value)>>)
             ELSE Call([i \in 1..length |-> Invoke("writeSingleCoil", address + i - 1, <<value[i]>>)])

handleFC16(model, frame) ==
    IF ~(Len(frame.data) > 5 /\ Len(frame.data) = 5 + frame.data[5]) THEN Drop
    ELSE IF ~("writeMultipleRegisters" \in model.has \/ "writeSingleRegister" \in model.has)
    THEN Err(ILLEGAL_FUNCTION)
    ELSE LET address   == readUInt16BE(frame.data, 0)
             length    == readUInt16BE(frame.data, 2)
             byteCount == frame.data[5]
             value     == [i \in 1..length |-> readUInt16BE(frame.data, 5 + (i - 1) * 2)]
         IN  IF ~(length >= 1 /\ length <= 123 /\ byteCount = length * 2)
             THEN Err(ILLEGAL_DATA_VALUE)
             ELSE IF ~checkRange(<<address, address + length>>, model.addressRange.holdingRegisters)
             THEN Err(ILLEGAL_DATA_ADDRESS)
             ELSE IF "writeMultipleRegisters" \in model.has
             THEN Call(<<Invoke("writeMultipleRegisters", address, value)>>)
             ELSE Call([i \in 1..length |-> Invoke("writeSingleRegister", address + i - 1, <<value[i]>>)])

\* the write part of FC23; readHoldingRegisters follows once it has resolved
handleFC23(model, frame) ==
    IF ~(Len(frame.data) > 9 /\ Len(frame.data) = 9 + frame.data[9]) THEN Drop
    ELSE IF ~(/\ "readHoldingRegisters" \in model.has
              /\ ("writeMultipleRegisters" \in model.has \/ "writeSingleRegister" \in model.has))
    THEN Err(ILLEGAL_FUNCTION)
    ELSE LET addressRead  == readUInt16BE(frame.data, 0)
             lengthRead   == readUInt16BE(frame.data, 2)
             addressWrite == readUInt16BE(frame.data, 4)
             lengthWrite  == readUInt16BE(frame.data, 6)
             byteCount    == frame.data[9]
             value        == [i \in 1..lengthWrite |-> readUInt16BE(frame.data, 9 + (i - 1) * 2)]
         IN  IF ~(/\ lengthRead >= 1 /\ lengthRead <= 125
                  /\ lengthWrite >= 1 /\ lengthWrite <= 121
                  /\ byteCount = lengthWrite * 2)
             THEN Err(ILLEGAL_DATA_VALUE)
             ELSE IF ~checkRange(<<addressRead, addressRead + lengthRead,
                                   addressWrite, addressWrite + lengthWrite>>,
                                 model.addressRange.holdingRegisters)
             THEN Err(ILLEGAL_DATA_ADDRESS)
             ELSE IF "writeMultipleRegisters" \in model.has
             THEN Call(<<Invoke("writeMultipleRegisters", addressWrite, value)>>)
             ELSE Call([i \in 1..lengthWrite |->
                          Invoke("writeSingleRegister", addressWrite + i - 1, <<value[i]>>)])

\* the switch on frame.fc; the cases of function codes 17, 22 and 43 call
\* handlers that are not among these, and no frame with one of these codes
\* is among the inputs
handleFC(model, frame) ==
    CASE frame.fc = 1  -> handleFC1(model, frame)
      [] frame.fc = 2  -> handleFC2(model, frame)
      [] frame.fc = 3  -> handleFC3(model, frame)
      [] frame.fc = 4  -> handleFC4(model, frame)
      [] frame.fc = 5  -> handleFC5(model, frame)
      [] frame.fc = 6  -> handleFC6(model, frame)
      [] frame.fc = 15 -> handleFC15(model, frame)
      [] frame.fc = 16 -> handleFC16(model, frame)
      [] frame.fc = 23 -> handleFC23(model, frame)
      [] OTHER         -> Err(ILLEGAL_FUNCTION)

-----------------------------------------------------------------------------
(* ModbusSlave: responses                                                  *)

\* bufferTx[~~(index / 8)] |= 1 << index % 8 for every true coil
packBits(coils, nbytes) ==
    [k \in 1..nbytes |->
        LET idx == {i \in 1..Len(coils) : (i - 1) \div 8 = k - 1 /\ coils[i] = 1}
            RECURSIVE Sum(_)
            Sum(S) == IF S = {} THEN 0
                      ELSE LET i == CHOOSE j \in S : TRUE
                           IN  2 ^ ((i - 1) % 8) + Sum(S \ {i})
        IN  Sum(idx)]

\* bufferTx.writeUInt16BE(register, index * 2) for every register
packRegisters(registers) == Flatten([i \in 1..Len(registers) |-> U16(registers[i])])

\* the PDU data of the normal response, built in the handler's .then() from
\* the value the last callback resolved with
thenData(frame, value) ==
    CASE frame.fc \in {1, 2} ->
            LET nbytes == Ceil(readUInt16BE(frame.data, 2), 8)
            IN  <<nbytes>> \o packBits(value, nbytes)
      [] frame.fc \in {3, 4} ->
            <<readUInt16BE(frame.data, 2) * 2>> \o packRegisters(value)
      [] frame.fc \in {5, 6} -> frame.data
      [] frame.fc \in {15, 16} -> SubSeq(frame.data, 1, 4)
      [] frame.fc = 23 ->
            <<readUInt16BE(frame.data, 2) * 2>> \o packRegisters(value)

\* the ADU responseError encodes
errorAdu(frame, err) ==
    [unit |-> frame.unit, fc |-> Or80(frame.fc), data |-> <<getCodeByError(err)>>]

\* the response closure handed to the handlers: _response is not invoked for
\* a broadcast frame; yields the buffers handed to _response
responseAlways(frame, data) == <<data>>

response(frame, data) == IF frame.unit = 0 THEN <<>> ELSE <<data>>

-----------------------------------------------------------------------------
(* ModbusSlave: the promise chain of one dispatch (one frame, one model).  *)
(* A task is [model, pc, calls, pend, replies]:                            *)
(*   pc       "intercept" the interceptor's promise is awaited            *)
(*            "await"     the handler's callback promise(s) are awaited    *)
(*            "read"      FC23: the write resolved, the read is awaited    *)
(*            "done"      the chain ended                                  *)
(*            "crashed"   the chain ended in a rejected promise that no    *)
(*                        handler observes (an unhandled rejection)        *)
(*   calls    the callbacks of the model invoked so far, in order, each    *)
(*            with how it went: out is "pending", "resolved" (with ret),   *)
(*            "nothing" (an interceptor resolving with undefined), "threw" *)
(*            or "rejected" (with err)                                     *)
(*   pend     indices of calls whose promise has not settled and is still  *)
(*            observed; once the chain has ended nothing observes them     *)
(*   replies  how many times the response closure was invoked              *)
(* A step yields [task, out]: the task after it and the buffers it handed  *)
(* to _response.                                                           *)

NewTask(model) ==
    [model |-> model, pc |-> "start", calls |-> <<>>, pend |-> {}, replies |-> 0]

\* call j of task t settles
settle(t, j, out, err, ret) ==
    [t EXCEPT !.calls[j] = [@ EXCEPT !.out = out, !.err = err, !.ret = ret],
              !.pend = @ \ {j}]

\* response(this.applicationLayer.encode({ ...frame, data }))
respond(t, frame, data) ==
    [task |-> [t EXCEPT !.pc = "done", !.pend = {}, !.replies = @ + 1],
     out  |-> response(frame, encode([unit |-> frame.unit, fc |-> frame.fc, data |-> data]))]

\* responseError(frame, response, error); an exception thrown by encode
\* escapes it, and at none of its call sites is that exception caught
responseError(t, frame, err) ==
    IF encodeThrows(errorAdu(frame, err))
    THEN [task |-> [t EXCEPT !.pc = "crashed", !.pend = {}], out |-> <<>>]
    ELSE [task |-> [t EXCEPT !.pc = "done", !.pend = {}, !.replies = @ + 1],
          out  |-> response(frame, encode(errorAdu(frame, err)))]

\* handleFC(model) run to the end of its synchronous part.  k = 0: every
\* callback returns; k > 0: the k-th callback invoked throws err
\* synchronously, which escapes the handler and the .then() callback that
\* called it
runHandler(t, frame, k, err) ==
    LET plan == handleFC(t.model, frame)
        base == Len(t.calls)
    IN  CASE plan.kind = "drop"  -> [task |-> [t EXCEPT !.pc = "done"], out |-> <<>>]
          [] plan.kind = "error" -> responseError(t, frame, getErrorByCode(plan.code))
          [] plan.kind = "call"  ->
                IF k \in 1..Len(plan.calls)
                THEN [task |-> [t EXCEPT !.pc = "crashed",
                                         !.calls = @ \o SubSeq(plan.calls, 1, k - 1)
                                                     \o <<[plan.calls[k] EXCEPT !.out = "threw",
                                                                                !.err = err]>>],
                      out  |-> <<>>]
                ELSE [task |-> [t EXCEPT !.pc = "await",
                                         !.calls = @ \o plan.calls,
                                         !.pend = (base + 1)..(base + Len(plan.calls))],
                      out  |-> <<>>]

\* intercept(model) up to its first await, then (no interceptor) the
\* .then() callback that runs handleFC.  k > 0 with an interceptor: the
\* interceptor throws err synchronously, which the try/catch turns into
\* responseError
intercept(model, frame, k, err) ==
    IF "interceptor" \in model.has
    THEN LET call == Invoke("interceptor", frame.fc, frame.data)
             t    == [NewTask(model) EXCEPT !.calls = <<call>>]
         IN  IF k > 0
             THEN responseError([t EXCEPT !.calls[1].out = "threw", !.calls[1].err = err],
                                frame, err)
             ELSE [task |-> [t EXCEPT !.pc = "intercept", !.pend = {1}], out |-> <<>>]
    ELSE runHandler(NewTask(model), frame, k, err)

-----------------------------------------------------------------------------
(* ModbusSlave: the model map                                              *)

\* model.unit ?? 1
key(model) == IF model.unit = <<>> THEN 1 ELSE model.unit[1]

has(ms, unit) == \E i \in 1..Len(ms) : key(ms[i]) = unit

get(ms, unit) == ms[CHOOSE i \in 1..Len(ms) : key(ms[i]) = unit]

\* Map.set: an existing key keeps its position, a new key goes last
add(ms, model) ==
    IF has(ms, key(model))
    THEN [i \in 1..Len(ms) |-> IF key(ms[i]) = key(model) THEN model ELSE ms[i]]
    ELSE Append(ms, model)

\* Map.delete
remove(ms, unit) == SelectSeq(ms, LAMBDA m : key(m) # unit)

\* the models a frame is dispatched to (the unit filter and the for loop)
targetsAll(ms, frame) == ms

targets(ms, frame) ==
    IF ~(frame.unit = 0 \/ has(ms, frame.unit)) THEN <<>>
    ELSE IF frame.unit = 0 THEN ms
    ELSE <<get(ms, frame.unit)>>

-----------------------------------------------------------------------------
(* ModbusSlave: inputs                                                     *)

NoRanges ==
    [discreteInputs |-> NoRange, coils |-> NoRange,
     inputRegisters |-> NoRange, holdingRegisters |-> NoRange]

\* every callback, a permitted range on three tables; unit left undefined
ModelA ==
    [unit |-> <<>>,
     has  |-> {"readDiscreteInputs", "readCoils", "writeSingleCoil", "writeMultipleCoils",
               "readInputRegisters", "readHoldingRegisters", "writeSingleRegister",
               "writeMultipleRegisters"},
     addressRange |-> [discreteInputs |-> NoRange, coils |-> Single(0, 9),
                       inputRegisters |-> List(<<<<0, 4>>, <<5, 9>>>>),
                       holdingRegisters |-> Single(0, 9)]]

\* a model with only readCoils
ModelB == [unit |-> <<1>>, has |-> {"readCoils"}, addressRange |-> NoRanges]

\* an interceptor, and only the single-write callbacks
ModelC ==
    [unit |-> <<2>>,
     has  |-> {"interceptor", "readCoils", "readHoldingRegisters", "writeSingleCoil",
               "writeSingleRegister"},
     addressRange |-> NoRanges]

\* only the single-write callbacks, no interceptor
ModelD ==
    [unit |-> <<2>>,
     has  |-> {"readHoldingRegisters", "writeSingleCoil", "writeSingleRegister"},
     addressRange |-> [NoRanges EXCEPT !.holdingRegisters = Single(0, 9)]]

\* the multi-write callbacks and the register reads, no range configured
ModelE ==
    [unit |-> <<1>>,
     has  |-> {"readInputRegisters", "readHoldingRegisters", "writeMultipleCoils",
               "writeMultipleRegisters"},
     addressRange |-> NoRanges]

ModelPool == {ModelA, ModelB, ModelC, ModelD, ModelE}

Units == {0, 1, 2}

Addrs == {0, 9}

\* request PDUs <<fc, data>>: per function code, PDUs that fail each check
\* of the handler and PDUs that pass them all
Pdus ==
    {<<fc, U16(a) \o U16(n)>> : fc \in {1, 2}, a \in Addrs, n \in {0, 1, 2, 2001}}
    \cup {<<fc, U16(a) \o U16(n)>> : fc \in {3, 4}, a \in Addrs, n \in {0, 1, 2, 126}}
    \cup {<<5, U16(a) \o U16(v)>> : a \in Addrs, v \in {0, 65280, 1}}
    \cup {<<6, U16(a) \o U16(v)>> : a \in Addrs, v \in {0, 44609}}
    \cup {<<fc, <<0, 0, 0>>>> : fc \in {1, 2, 3, 4, 5, 6}}
    \cup {<<15, U16(a) \o d>> : a \in Addrs,
                                d \in {<<0, 1, 1, 1>>, <<0, 2, 1, 2>>, <<0, 0, 1, 0>>,
                                       <<0, 2, 2, 2, 0>>}}
    \cup {<<16, U16(a) \o d>> : a \in Addrs,
                                d \in {<<0, 1, 2, 174, 65>>, <<0, 2, 4, 174, 65, 0, 7>>,
                                       <<0, 1, 4, 174, 65, 0, 7>>}}
    \cup {<<fc, d>> : fc \in {15, 16}, d \in {<<0, 0, 0, 1, 0>>, <<0, 0, 0, 1, 2, 1>>}}
    \cup {<<23, <<0, 0>> \o U16(n) \o U16(a) \o d>> : n \in {0, 1, 126}, a \in Addrs,
                                d \in {<<0, 1, 2, 174, 65>>, <<0, 2, 4, 174, 65, 0, 7>>}}
    \cup {<<23, d>> : d \in {<<0, 0, 0, 1, 0, 0, 0, 1, 2>>,
                             <<0, 0, 0, 1, 0, 0, 0, 1, 2, 1>>}}
    \cup {<<fc, d>> : fc \in {7, 131}, d \in {<<>>, <<0, 0, 0, 1>>}}

\* n bytes of payload
Fill(n) == [i \in 1..n |-> 0]

\* request PDUs at the largest count the protocol allows and one past it
LimitPdus ==
    {<<fc, <<0, 0>> \o U16(n)>> : fc \in {1, 2}, n \in {2000, 2001}}
    \cup {<<fc, <<0, 0>> \o U16(n)>> : fc \in {3, 4}, n \in {125, 126}}
    \cup {<<15, <<0, 0>> \o U16(n) \o <<Ceil(n, 8)>> \o Fill(Ceil(n, 8))>> : n \in {1968, 1969}}
    \cup {<<16, <<0, 0>> \o U16(n) \o <<n * 2>> \o Fill(n * 2)>> : n \in {123, 124}}
    \cup {<<23, <<0, 0>> \o U16(r) \o <<0, 0>> \o U16(w) \o <<w * 2>> \o Fill(w * 2)>> :
            r \in {125}, w \in {121, 122}}

\* frames the framing event delivers (function codes 17, 22 and 43
\* excluded); the frames at the limits are addressed to the unit whose
\* models take a multi-element write in one call
Frames ==
    {[unit |-> u, fc |-> p[1], data |-> p[2]] : u \in Units, p \in Pdus}
    \cup {[unit |-> u, fc |-> p[1], data |-> p[2]] : u \in {1}, p \in LimitPdus}

\* errors a callback or an interceptor throws or rejects with
Boom == <<"b", "o", "o", "m">>

UserErrors == {Boom, PREFIX \o <<"6">>, PREFIX \o <<"7">>, PREFIX \o <<"3", "0", "0">>}

\* PDU data an interceptor yields
Payloads == {<<>>, <<2, 0, 7>>}

RegisterValues == {0, 44609}

\* the values a callback may resolve with: as many values as were asked
\* for by a read, nothing for a write
ReturnValues(call) ==
    CASE call.value[1] > 2 /\ call.name \in {"readCoils", "readDiscreteInputs"} ->
            {[i \in 1..call.value[1] |-> i % 2]}
      [] call.value[1] > 2 /\ call.name \in {"readHoldingRegisters", "readInputRegisters"} ->
            {[i \in 1..call.value[1] |-> 44609]}
      [] call.name \in {"readCoils", "readDiscreteInputs"} -> [1..call.value[1] -> {0, 1}]
      [] call.name \in {"readHoldingRegisters", "readInputRegisters"} ->
            [1..call.value[1] -> RegisterValues]
      [] OTHER -> {<<>>}

\* how the synchronous part of a dispatch may go: [k, err] as in intercept
SyncChoices(model, frame) ==
    IF "interceptor" \in model.has
    THEN {[k |-> 0, err |-> <<>>]} \cup {[k |-> 1, err |-> e] : e \in UserErrors}
    ELSE {[k |-> 0, err |-> <<>>]}
         \cup {[k |-> j, err |-> Boom] : j \in 1..Len(handleFC(model, frame).calls)}

-----------------------------------------------------------------------------
(* ModbusSlave: actions                                                    *)

\* no request handled yet
NoExchange == [kind |-> "none"]

\* no application layer constructed yet for the layer-level checks;
\* threePointFiveT is the interval the RTU layer's constructor computes, 2
\* (ms) on a serial port above 19200 baud, 0 on a transport that is not
\* serial
NoLayer ==
    [variant |-> "none", waitingResponse |-> <<>>, bufferRx |-> <<>>,
     timerThreePointFive |-> FALSE, status |-> "idle", frame |-> <<>>, transactionId |-> 1,
     threePointFiveT |-> 2]

\* no byte stream under way
NoStream == [stream |-> <<>>, pos |-> 0, bursts |-> 0, from |-> 0]

\* after construction: no model registered, nothing received or sent; no
\* request issued, no wait in place, an empty receive buffer, the port open
Init ==
    /\ models = <<>>
    /\ rx = <<>>
    /\ tasks = <<>>
    /\ sent = <<>>
    /\ reqs = <<>>
    /\ waiting = <<>>
    /\ bufferRx = <<>>
    /\ timerThreePointFive = FALSE
    /\ written = <<>>
    /\ emitted = <<>>
    /\ open = TRUE
    /\ destroyed = FALSE
    /\ layer = NoLayer
    /\ log = <<>>
    /\ encoded = <<>>
    /\ inbound = NoStream
    /\ ex = NoExchange

\* add(model).  The map is read when a frame is dispatched and not again
\* (a dispatch holds its model), so the calls that matter to the frame a
\* behaviour follows are those made before it arrives.
Add ==
    \E m \in ModelPool :
        /\ rx = <<>>
        /\ models' = add(models, m)
        /\ UNCHANGED <<rx, tasks, sent>>
        /\ UNCHANGED masterVars
        /\ UNCHANGED layerVars
        /\ UNCHANGED exchangeVars

\* remove(unit)
Remove ==
    \E u \in {1, 2} :
        /\ rx = <<>>
        /\ models' = remove(models, u)
        /\ UNCHANGED <<rx, tasks, sent>>
        /\ UNCHANGED masterVars
        /\ UNCHANGED layerVars
        /\ UNCHANGED exchangeVars

\* the 'framing' listener: the unit filter, then for every target model
\* intercept(model) and, without an interceptor, handleFC(model).  A
\* dispatch keeps no state from one frame to the next (its closure holds
\* the frame, the model and response), so a behaviour follows one frame:
\* the first one delivered after any number of add and remove calls.
Framing ==
    \E f \in Frames :
        LET ts == targets(models, f)
        IN  /\ rx = <<>>
            /\ rx' = <<f>>
            /\ \E cs \in [1..Len(ts) -> UNION {SyncChoices(ts[i], f) : i \in 1..Len(ts)}] :
                  /\ \A i \in 1..Len(ts) : cs[i] \in SyncChoices(ts[i], f)
                  /\ LET rs == [i \in 1..Len(ts) |-> intercept(ts[i], f, cs[i].k, cs[i].err)]
                     IN  /\ tasks' = [i \in 1..Len(ts) |-> rs[i].task]
                         /\ sent' = Flatten([i \in 1..Len(ts) |-> rs[i].out])
            /\ UNCHANGED models
            /\ UNCHANGED masterVars
            /\ UNCHANGED layerVars
            /\ UNCHANGED exchangeVars

\* the interceptor's promise settles: with a payload, with nothing (the
\* handler runs), or rejected
InterceptorSettle ==
    \E i \in 1..Len(tasks) :
        /\ tasks[i].pc = "intercept"
        /\ \E r \in {respond(settle(tasks[i], 1, "resolved", <<>>, p), rx[1], p) : p \in Payloads}
                    \cup {responseError(settle(tasks[i], 1, "rejected", e, <<>>), rx[1], e) :
                            e \in UserErrors}
                    \cup {runHandler(settle(tasks[i], 1, "nothing", <<>>, <<>>), rx[1], c.k, c.err) :
                            c \in SyncChoices([tasks[i].model EXCEPT !.has = @ \ {"interceptor"}],
                                              rx[1])} :
              /\ tasks' = [tasks EXCEPT ![i] = r.task]
              /\ sent' = sent \o r.out
        /\ UNCHANGED <<models, rx>>
        /\ UNCHANGED masterVars
        /\ UNCHANGED layerVars
        /\ UNCHANGED exchangeVars

\* a callback's promise resolves; for FC23 the write is followed by the
\* read, which may throw inside the .then() callback
CallbackResolve ==
    \E i \in 1..Len(tasks) : \E j \in tasks[i].pend :
        /\ tasks[i].pc # "intercept"
        /\ \E v \in ReturnValues(tasks[i].calls[j]) :
            LET t    == settle(tasks[i], j, "resolved", <<>>, v)
                f    == rx[1]
                read == Invoke("readHoldingRegisters", readUInt16BE(f.data, 0),
                               <<readUInt16BE(f.data, 2)>>)
            IN  \E r \in
                   IF t.pend # {}
                   THEN {[task |-> t, out |-> <<>>]}
                   ELSE IF t.pc = "await" /\ f.fc = 23
                   THEN {[task |-> [t EXCEPT !.pc = "read", !.calls = Append(@, read),
                                             !.pend = {Len(t.calls) + 1}],
                          out  |-> <<>>]}
                        \cup {responseError(
                                [t EXCEPT !.calls = Append(@, [read EXCEPT !.out = "threw",
                                                                           !.err = e])],
                                f, e) : e \in UserErrors}
                   ELSE {respond(t, f, thenData(f, v))} :
                   /\ tasks' = [tasks EXCEPT ![i] = r.task]
                   /\ sent' = sent \o r.out
        /\ UNCHANGED <<models, rx>>
        /\ UNCHANGED masterVars
        /\ UNCHANGED layerVars
        /\ UNCHANGED exchangeVars

\* a callback's promise rejects: the first rejection reaches the handler's
\* .catch()
CallbackReject ==
    \E i \in 1..Len(tasks) : \E j \in tasks[i].pend : \E e \in UserErrors :
        LET r == responseError(settle(tasks[i], j, "rejected", e, <<>>), rx[1], e)
        IN  /\ tasks[i].pc # "intercept"
            /\ tasks' = [tasks EXCEPT ![i] = r.task]
            /\ sent' = sent \o r.out
            /\ UNCHANGED <<models, rx>>
            /\ UNCHANGED masterVars
            /\ UNCHANGED layerVars
            /\ UNCHANGED exchangeVars

SlaveNext == Add \/ Remove \/ Framing \/ InterceptorSettle \/ CallbackResolve \/ CallbackReject

SpecSlave == Init /\ [][SlaveNext]_vars

-----------------------------------------------------------------------------
(* RtuApplicationLayer: framing                                            *)
(* A pre-check is [kind, ...]; its result is [type, val] with type the     *)
(* JavaScript type of what the check returns ("boolean" with val 0/1,      *)
(* "number", "undefined").                                                 *)

\* Buffer.readUInt16LE(off) on a 0-based offset
readUInt16LE(buf, off) == buf[off + 1] + buf[off + 2] * 256

Bool(b) == [type |-> "boolean", val |-> IF b THEN 1 ELSE 0]

Num(n) == [type |-> "number", val |-> n]

\* the checks ModbusMaster.writeFC3Or4 hands to waitResponse:
\*   (frame) => frame.unit === unit && frame.fc === fc
\*   () => 1 + byteCount
\*   (frame) => frame.data[0] === byteCount
preCheckFC3Or4(unit, fc, byteCount) ==
    <<[kind |-> "unitFc", unit |-> unit, fc |-> fc],
      [kind |-> "length", n |-> 1 + byteCount],
      [kind |-> "byteCount", n |-> byteCount]>>

\* the checks ModbusMaster.writeFC1Or2 hands to waitResponse: the same three,
\* with byteCount = Math.ceil(length / 8)
preCheckFC1Or2(unit, fc, byteCount) ==
    <<[kind |-> "unitFc", unit |-> unit, fc |-> fc],
      [kind |-> "length", n |-> 1 + byteCount],
      [kind |-> "byteCount", n |-> byteCount]>>

\* the checks ModbusMaster.readAndWriteMultipleRegisters hands to
\* waitResponse, with byteCount = write.value.length * 2
preCheckFC23(unit, fc, byteCount) ==
    <<[kind |-> "unitFc", unit |-> unit, fc |-> fc],
      [kind |-> "length", n |-> 1 + byteCount],
      [kind |-> "byteCount", n |-> byteCount]>>

Undefined == [type |-> "undefined", val |-> 0]

\* Buffer.from(bytes).toString(): UTF-8 decoding of one- and two-byte
\* sequences; a byte that starts or continues nothing is U+FFFD.  A byte
\* 0x80..0xBF right after a lead byte 0xC2..0xDF belongs to that lead.
fromUtf8(bytes) ==
    LET continues(i) == i > 1 /\ bytes[i] \in 128..191 /\ bytes[i - 1] \in 194..223
        char(i) == IF bytes[i] < 128 THEN bytes[i]
                   ELSE IF bytes[i] \in 194..223 /\ i < Len(bytes) /\ bytes[i + 1] \in 128..191
                   THEN (bytes[i] - 192) * 64 + (bytes[i + 1] - 128)
                   ELSE 65533
    IN  Flatten([i \in 1..Len(bytes) |-> IF continues(i) THEN <<>> ELSE <<char(i)>>])

\* the loop of readDeviceIdentification over frame.data.slice(6), taken an
\* object at a time: the loop stores the id and the length byte, then the
\* first value byte without comparing, and closes the object when a later
\* value byte makes the value as long as the length byte says.  An object
\* is thus closed after 2 + length bytes when length >= 2 and those bytes
\* are there, and never closed otherwise (the bytes that follow are all
\* taken into its value).  Yields the closed objects as [id, bytes].
RECURSIVE walkObjects(_)
walkObjects(bytes) ==
    IF Len(bytes) >= 2 /\ bytes[2] >= 2 /\ Len(bytes) >= 2 + bytes[2]
    THEN <<[id |-> bytes[1], bytes |-> SubSeq(bytes, 3, 2 + bytes[2])]>>
            \o walkObjects(SubSeq(bytes, 3 + bytes[2], Len(bytes)))
    ELSE <<>>

RECURSIVE SumSizes(_)
SumSizes(objects) ==
    IF objects = <<>> THEN 0 ELSE 2 + Len(Head(objects).bytes) + SumSizes(Tail(objects))

\* the second pre-check of readDeviceIdentification
checkDeviceId(readDeviceIDCode, frame) ==
    IF Len(frame.data) >= 6
    THEN IF frame.data[1] = 14 /\ frame.data[2] = readDeviceIDCode
         THEN LET objects == walkObjects(SubSeq(frame.data, 7, Len(frame.data)))
              IN  IF Len(objects) = frame.data[6] THEN Num(6 + SumSizes(objects))
                  ELSE Undefined
         ELSE Bool(FALSE)
    ELSE Undefined

\* the checks ModbusMaster.readDeviceIdentification hands to waitResponse
preCheckFC43_14(unit, fc, readDeviceIDCode) ==
    <<[kind |-> "unitFc", unit |-> unit, fc |-> fc],
      [kind |-> "deviceId", code |-> readDeviceIDCode]>>

checkIgnoringFc(c, frame) ==
    CASE c.kind = "unitFc"    -> Bool(frame.unit = c.unit)
      [] c.kind = "length"    -> Num(c.n)
      [] c.kind = "byteCount" -> Bool(Len(frame.data) > 0 /\ frame.data[1] = c.n)
      [] c.kind = "deviceId"  -> checkDeviceId(c.code, frame)

check(c, frame) ==
    CASE c.kind = "unitFc"    -> Bool(frame.unit = c.unit /\ frame.fc = c.fc)
      [] c.kind = "length"    -> Num(c.n)
      [] c.kind = "byteCount" -> Bool(Len(frame.data) > 0 /\ frame.data[1] = c.n)
      [] c.kind = "deviceId"  -> checkDeviceId(c.code, frame)

\* the loop over this._waitingResponse.preCheck: "" when every check
\* passes, the message of the error otherwise.  A number is compared with
\* frame.data.length as the code compares it: res < frame.data.length is
\* reported as insufficient data, any other difference as invalid
RECURSIVE preChecks(_, _)
preChecks(checks, frame) ==
    IF checks = <<>> THEN ""
    ELSE LET res == check(Head(checks), frame)
         IN  IF res.type = "undefined" THEN "Insufficient data length"
             ELSE IF res.type = "number" /\ res.val < Len(frame.data)
             THEN "Insufficient data length"
             ELSE IF res.type = "number" /\ res.val # Len(frame.data) THEN "Invalid response"
             ELSE IF res.val = 0 THEN "Invalid response"
             ELSE preChecks(Tail(checks), frame)

NoFrame == [unit |-> 0, fc |-> 0, data |-> <<>>]

framingNoCrc(buffer, checks) ==
    IF Len(buffer) >= 4
    THEN LET frame == [unit |-> buffer[1], fc |-> buffer[2],
                       data |-> SubSeq(buffer, 3, Len(buffer) - 2)]
             pre   == preChecks(checks, frame)
         IN  IF pre # "" THEN [error |-> pre, frame |-> NoFrame]
             ELSE [error |-> "", frame |-> frame]
    ELSE [error |-> "Insufficient data length", frame |-> NoFrame]

\* framing(buffer, callback): what the callback is called with, [error,
\* frame], error "" for null; checks is the pre-check list of the wait in
\* place, <<>> when there is none
framing(buffer, checks) ==
    IF Len(buffer) >= 4
    THEN LET frame == [unit |-> buffer[1], fc |-> buffer[2],
                       data |-> SubSeq(buffer, 3, Len(buffer) - 2)]
             pre   == preChecks(checks, frame)
         IN  IF pre # "" THEN [error |-> pre, frame |-> NoFrame]
             ELSE IF readUInt16LE(buffer, Len(buffer) - 2)
                       = crc(SubSeq(buffer, 1, Len(buffer) - 2))
             THEN [error |-> "", frame |-> frame]
             ELSE [error |-> "CRC check failed", frame |-> NoFrame]
    ELSE [error |-> "Insufficient data length", frame |-> NoFrame]

-----------------------------------------------------------------------------
(* ModbusMaster.waitResponse and writeFC3Or4 over the RTU layer.           *)
(* A request is [unit, fc, length, pc, timer, started, resolves, rejects,  *)
(* state, value, error]:                                                   *)
(*   pc        "writing" physicalLayer.write is in flight, "written" it    *)
(*             resolved, "failed" it rejected                              *)
(*   timer     the request's setTimeout: "none", "armed", "cleared" or     *)
(*             "fired"                                                     *)
(*   started   startWaitingResponse was called for the request             *)
(*   resolves, rejects   calls of the promise's resolve and reject         *)
(*   state     of the promise the request method returned: "pending",      *)
(*             "fulfilled" (with value: <<>> for undefined, or the one     *)
(*             decoded frame) or "rejected" (with error, a message)        *)

MaxRequests == 2

MaxBuf == 7

MaxEmitted == 1

NewRequest(unit, fc, length) ==
    [unit |-> unit, fc |-> fc, length |-> length, pc |-> "writing", timer |-> "none",
     started |-> FALSE, resolves |-> 0, rejects |-> 0, state |-> "pending",
     value |-> <<>>, error |-> ""]

\* a promise settles at the first call of resolve or reject
resolve(r, v) ==
    [r EXCEPT !.resolves = @ + 1,
              !.state = IF r.state = "pending" THEN "fulfilled" ELSE @,
              !.value = IF r.state = "pending" THEN v ELSE @]

reject(r, e) ==
    [r EXCEPT !.rejects = @ + 1,
              !.state = IF r.state = "pending" THEN "rejected" ELSE @,
              !.error = IF r.state = "pending" THEN e ELSE @]

keepTimeout(timer) == timer

clearTimeout(timer) == IF timer = "armed" THEN "cleared" ELSE timer

neverBroadcast(unit) == FALSE

\* broadcast: unit === 0
broadcast(unit) == unit = 0

keepWaitingResponse(w) == w

\* stopWaitingResponse(): this._waitingResponse = undefined
stopWaitingResponse(w) == <<>>

\* the request ADU of writeFC3Or4, encoded
requestFC3Or4(unit, fc, address, length) ==
    encode([unit |-> unit, fc |-> fc, data |-> U16(address) \o U16(length)])

\* the .then() of writeFC3Or4: the registers read from frame.data.slice(1)
decodeFC3Or4(r, frame) ==
    <<[unit |-> frame.unit, fc |-> frame.fc,
       data |-> [k \in 1..r.length |-> readUInt16BE(Tail(frame.data), (k - 1) * 2)]]>>

\* the .then() of writeFC1Or2: bit index of frame.data[1 + ~~(index / 8)],
\* a boolean written 0 or 1
decodeFC1Or2(r, frame) ==
    <<[unit |-> frame.unit, fc |-> frame.fc,
       data |-> [k \in 1..r.length |-> BitAt(frame.data, 1, k - 1)]]>>

\* the .then() of the request method that issued r
decode(r, frame) ==
    IF r.fc \in {1, 2} THEN decodeFC1Or2(r, frame) ELSE decodeFC3Or4(r, frame)

\* the pre-checks the request method that issued r hands to waitResponse
preCheckOf(r) ==
    IF r.fc \in {1, 2} THEN preCheckFC1Or2(r.unit, r.fc, Ceil(r.length, 8))
    ELSE preCheckFC3Or4(r.unit, r.fc, r.length * 2)

\* the callback waitResponse hands to startWaitingResponse, the wait
\* itself left aside
callback(r, res) ==
    LET r1 == [r EXCEPT !.timer = clearTimeout(@)]
    IN  IF res.error # "" THEN reject(r1, res.error)
        ELSE resolve(r1, decode(r1, res.frame))

\* the pre-checks of the wait in place
waitingPreCheck ==
    IF waiting = <<>> THEN <<>> ELSE preCheckOf(reqs[waiting[1]])

-----------------------------------------------------------------------------
(* ModbusMaster over RTU: inputs and actions                               *)

ReqUnits == {0, 1}

\* the response of unit 1 to readHoldingRegisters(1, 0, 1): one register
ValidResponse(r) ==
    encode([unit |-> r.unit, fc |-> r.fc,
            data |-> <<r.length * 2>> \o Flatten([k \in 1..r.length |-> <<174, 65>>])])

Response1 == ValidResponse(NewRequest(1, 3, 1))

\* what the transport may deliver in one 'data' event: the response, whole
\* or any non-empty proper prefix or suffix of it; the response with a
\* wrong CRC, from another unit, an exception response
Bursts ==
    {SubSeq(Response1, 1, k) : k \in 1..Len(Response1)}
    \cup {SubSeq(Response1, k, Len(Response1)) : k \in 2..Len(Response1)}
    \cup {[Response1 EXCEPT ![Len(Response1)] = (@ + 1) % 256],
          encode([unit |-> 2, fc |-> 3, data |-> <<2, 174, 65>>]),
          encode([unit |-> 1, fc |-> 131, data |-> <<2>>])}

\* readHoldingRegisters(unit, 0, 1, timeout): the request is encoded and
\* handed to physicalLayer.write
Request ==
    \E unit \in ReqUnits :
        /\ Len(reqs) < MaxRequests
        /\ reqs' = Append(reqs, NewRequest(unit, 3, 1))
        /\ written' = Append(written, requestFC3Or4(unit, 3, 0, 1))
        /\ UNCHANGED <<waiting, bufferRx, timerThreePointFive, emitted, open, destroyed>>
        /\ UNCHANGED slaveVars
        /\ UNCHANGED layerVars
        /\ UNCHANGED exchangeVars

\* the write resolves: a broadcast resolves at once; otherwise the timer
\* is armed and startWaitingResponse called, which clears the 3.5T timer
\* and the receive buffer
WriteDone ==
    \E i \in 1..Len(reqs) :
        /\ reqs[i].pc = "writing"
        /\ open
        /\ IF broadcast(reqs[i].unit)
           THEN /\ reqs' = [reqs EXCEPT ![i] = resolve([@ EXCEPT !.pc = "written"], <<>>)]
                /\ UNCHANGED <<waiting, bufferRx, timerThreePointFive>>
           ELSE /\ reqs' = [reqs EXCEPT ![i] = [@ EXCEPT !.pc = "written", !.timer = "armed",
                                                         !.started = TRUE]]
                /\ waiting' = <<i>>
                /\ timerThreePointFive' = FALSE
                /\ bufferRx' = <<>>
        /\ UNCHANGED <<written, emitted, open, destroyed>>
        /\ UNCHANGED slaveVars
        /\ UNCHANGED layerVars
        /\ UNCHANGED exchangeVars

\* the write rejects
WriteFail ==
    \E i \in 1..Len(reqs) :
        /\ reqs[i].pc = "writing"
        /\ reqs' = [reqs EXCEPT ![i] = reject([@ EXCEPT !.pc = "failed"], "Port is not open")]
        /\ UNCHANGED <<waiting, bufferRx, timerThreePointFive, written, emitted, open, destroyed>>
        /\ UNCHANGED slaveVars
        /\ UNCHANGED layerVars
        /\ UNCHANGED exchangeVars

\* the request's timer expires
Timeout ==
    \E i \in 1..Len(reqs) :
        /\ reqs[i].timer = "armed"
        /\ waiting' = stopWaitingResponse(waiting)
        /\ reqs' = [reqs EXCEPT ![i] = reject([@ EXCEPT !.timer = "fired"], "Timeout")]
        /\ UNCHANGED <<bufferRx, timerThreePointFive, written, emitted, open, destroyed>>
        /\ UNCHANGED slaveVars
        /\ UNCHANGED layerVars
        /\ UNCHANGED exchangeVars

\* handleData: a 'data' event of the physical layer
Data(data) ==
    LET buffer == bufferRx \o data
        res    == framing(buffer, waitingPreCheck)
    IN  /\ open
        /\ Len(buffer) <= MaxBuf
        /\ IF waiting # <<>>
           THEN /\ IF res.error = "Insufficient data length"
                   THEN /\ bufferRx' = buffer
                        /\ UNCHANGED <<reqs, waiting>>
                   ELSE /\ reqs' = [reqs EXCEPT ![waiting[1]] = callback(@, res)]
                        /\ waiting' = stopWaitingResponse(waiting)
                        /\ bufferRx' = <<>>
                /\ UNCHANGED timerThreePointFive
           ELSE /\ Len(emitted) < MaxEmitted
                /\ bufferRx' = buffer
                /\ timerThreePointFive' = TRUE
                /\ UNCHANGED <<reqs, waiting>>
        /\ UNCHANGED <<written, emitted, open, destroyed>>
        /\ UNCHANGED slaveVars
        /\ UNCHANGED layerVars
        /\ UNCHANGED exchangeVars

Receive == \E data \in Bursts : Data(data)

\* the 3.5T timer elapses (at once on a transport that is not serial): the
\* buffer is framed, a frame without error is emitted
ThreePointFive ==
    LET res == framing(bufferRx, waitingPreCheck)
    IN  /\ timerThreePointFive
        /\ timerThreePointFive' = FALSE
        /\ emitted' = IF res.error = "" THEN Append(emitted, res.frame) ELSE emitted
        /\ bufferRx' = <<>>
        /\ UNCHANGED <<reqs, waiting, written, open, destroyed>>
        /\ UNCHANGED slaveVars
        /\ UNCHANGED layerVars
        /\ UNCHANGED exchangeVars

\* the physical layer's 'close' event: the port is no longer open, the RTU
\* layer's handleClose clears its 3.5T timer and its receive buffer, and
\* the client re-emits 'close'; no request is touched
Close ==
    /\ open
    /\ open' = FALSE
    /\ timerThreePointFive' = FALSE
    /\ bufferRx' = <<>>
    /\ UNCHANGED <<reqs, waiting, written, emitted, destroyed>>
    /\ UNCHANGED slaveVars
    /\ UNCHANGED layerVars
    /\ UNCHANGED exchangeVars

\* destroy(): the client drops its own listeners; the RTU layer drops its
\* listeners, detaches its handlers from the physical layer and clears its
\* 3.5T timer; the physical layer is marked destroyed, drops its listeners
\* and closes.  No wait is removed and no request's timer is cleared: the
\* timer id is local to waitResponse.
Destroy ==
    /\ ~destroyed
    /\ destroyed' = TRUE
    /\ open' = FALSE
    /\ timerThreePointFive' = FALSE
    /\ reqs' = [i \in 1..Len(reqs) |-> [reqs[i] EXCEPT !.timer = keepTimeout(@)]]
    /\ waiting' = keepWaitingResponse(waiting)
    /\ UNCHANGED <<bufferRx, written, emitted>>
    /\ UNCHANGED slaveVars
    /\ UNCHANGED layerVars
    /\ UNCHANGED exchangeVars

MasterNext ==
    Request \/ WriteDone \/ WriteFail \/ Timeout \/ Receive \/ ThreePointFive \/ Close
    \/ Destroy

SpecMaster == Init /\ [][MasterNext]_vars

-----------------------------------------------------------------------------
(* utils/lrc.ts, AsciiApplicationLayer and TcpApplicationLayer: encoding   *)
(* and framing.  Characters are their codes.                               *)

RECURSIVE SumOf(_)
SumOf(s) == IF s = <<>> THEN 0 ELSE Head(s) + SumOf(Tail(s))

\* (~sum + 1) & 0xff
lrc(data) == (256 - (SumOf(data) % 256)) % 256

\* the line ending taken the other way round
CHAR_CODE_LF_CR == [COLON |-> 58, CR |-> 10, LF |-> 13]

CHAR_CODE == [COLON |-> 58, CR |-> 13, LF |-> 10]

\* the characters 0-9 and A-F
HexChars == <<48, 49, 50, 51, 52, 53, 54, 55, 56, 57, 65, 66, 67, 68, 69, 70>>

toHexLowNibbleFirst(value) == <<HexChars[(value % 16) + 1], HexChars[(value \div 16) + 1]>>

\* value.toString(16).toUpperCase().padStart(2, '0')
toHex(value) == <<HexChars[(value \div 16) + 1], HexChars[(value % 16) + 1]>>

\* the value of a hexadecimal digit in either case, -1 for any other
\* character
hexDigit(c) ==
    IF c \in 48..57 THEN c - 48
    ELSE IF c \in 65..70 THEN c - 55
    ELSE IF c \in 97..102 THEN c - 87
    ELSE -1

\* ascii.push(Number('0x' + num)) read back from Buffer.from(ascii): Number
\* trims a trailing white space character (tab, LF, VT, FF, space, NBSP), so
\* a digit followed by one is the digit's value; the NaN of any other pair
\* that is not two hexadecimal digits is stored as 0
fromHex(c1, c2) ==
    IF hexDigit(c1) >= 0 /\ c2 \in {9, 10, 11, 12, 32, 160} THEN hexDigit(c1)
    ELSE IF hexDigit(c1) < 0 \/ hexDigit(c2) < 0 THEN 0
    ELSE hexDigit(c1) * 16 + hexDigit(c2)

\* AsciiApplicationLayer.encode: ':', two characters per byte of unit, fc,
\* data and LRC, CR LF
encodeAscii(adu) ==
    LET body   == <<adu.unit, adu.fc>> \o adu.data
        buffer == body \o <<lrc(body)>>
    IN  <<CHAR_CODE.COLON>> \o Flatten([i \in 1..Len(buffer) |-> toHex(buffer[i])])
                            \o <<CHAR_CODE.CR, CHAR_CODE.LF>>

\* the bytes decoded from the characters between ':' and CR
asciiBytes(chars) == [i \in 1..(Len(chars) \div 2) |-> fromHex(chars[2 * i - 1], chars[2 * i])]

\* the pre-check loop of AsciiApplicationLayer.framing: a number larger
\* than frame.data.length is reported as insufficient data, any other
\* difference as invalid
RECURSIVE preChecksAscii(_, _)
preChecksAscii(checks, frame) ==
    IF checks = <<>> THEN ""
    ELSE LET res == check(Head(checks), frame)
         IN  IF res.type = "undefined" THEN "Insufficient data length"
             ELSE IF res.type = "number" /\ Len(frame.data) < res.val
             THEN "Insufficient data length"
             ELSE IF res.type = "number" /\ Len(frame.data) # res.val THEN "Invalid response"
             ELSE IF res.val = 0 THEN "Invalid response"
             ELSE preChecksAscii(Tail(checks), frame)

\* AsciiApplicationLayer.framing(_buffer, callback)
framingAscii(chars, checks) ==
    IF Len(chars) >= 6
    THEN IF Len(chars) % 2 = 0
         THEN LET buffer == asciiBytes(chars)
                  frame  == [unit |-> buffer[1], fc |-> buffer[2],
                             data |-> SubSeq(buffer, 3, Len(buffer) - 1)]
                  pre    == preChecksAscii(checks, frame)
              IN  IF pre # "" THEN [error |-> pre, frame |-> NoFrame]
                  ELSE IF buffer[Len(buffer)] = lrc(SubSeq(buffer, 1, Len(buffer) - 1))
                  THEN [error |-> "", frame |-> frame]
                  ELSE [error |-> "LRC check failed", frame |-> NoFrame]
         ELSE [error |-> "Invalid data", frame |-> NoFrame]
    ELSE [error |-> "Insufficient data length", frame |-> NoFrame]

\* the counter advanced modulo 256 and nothing more
nextTransactionIdMod(id) == (id + 1) % 256

\* this._transactionId = (this._transactionId + 1) % 256 || 1
nextTransactionId(id) == IF (id + 1) % 256 = 0 THEN 1 ELSE (id + 1) % 256

\* TcpApplicationLayer.encode: data.transaction ?? this._transactionId, the
\* protocol 0, the length of unit, fc and data, then unit, fc and data
encodeTcp(adu, transactionId) ==
    U16(IF adu.transaction = <<>> THEN transactionId ELSE adu.transaction[1])
        \o <<0, 0>> \o U16(Len(adu.data) + 2) \o <<adu.unit, adu.fc>> \o adu.data

\* TcpApplicationLayer.framing(buffer, callback); the pre-check loop is the
\* one of the RTU layer
framingTcp(buffer, checks) ==
    IF Len(buffer) >= 8
    THEN IF buffer[3] = 0 /\ buffer[4] = 0 /\ readUInt16BE(buffer, 4) = Len(buffer) - 6
         THEN LET frame == [unit |-> buffer[7], fc |-> buffer[8],
                            data |-> SubSeq(buffer, 9, Len(buffer))]
                  pre   == preChecks(checks, frame)
              IN  IF pre # "" THEN [error |-> pre, frame |-> NoFrame]
                  ELSE [error |-> "", frame |-> frame]
         ELSE [error |-> "Invalid data", frame |-> NoFrame]
    ELSE [error |-> "Insufficient data length", frame |-> NoFrame]

-----------------------------------------------------------------------------
(* An application layer with a client's wait on it.                        *)
(* layer is [variant, waitingResponse, bufferRx, timerThreePointFive,      *)
(* status, frame, transactionId]: the fields of the three classes          *)
(* (_bufferRx and the timer are the RTU layer's, _status and _frame the    *)
(* ASCII layer's, _transactionId the TCP layer's); waitingResponse is <<>> *)
(* or <<r>>, r the request whose pre-checks and callback are registered.   *)
(* A log entry is [via, error, frame, buffer, transaction, req]: via       *)
(* "framing" for an emitted event, "callback" for a call of the wait's     *)
(* callback, with req the request after that call; buffer is frame.buffer  *)
(* and transaction frame.transaction (<<>> when there is none).            *)

MaxLog == 1

MaxLayerBuf == 12

MaxEncodes == 2

Variants == {"RTU", "ASCII", "TCP"}

checksOf(l) == IF l.waitingResponse = <<>> THEN <<>> ELSE preCheckOf(l.waitingResponse[1])

\* the wait registered and what was received before left as it is
startWaitingResponseOnly(l, r) == [l EXCEPT !.waitingResponse = <<r>>]

\* startWaitingResponse(preCheck, callback)
startWaitingResponse(l, r) ==
    CASE l.variant = "RTU" ->
            [l EXCEPT !.waitingResponse = <<r>>, !.timerThreePointFive = FALSE,
                      !.bufferRx = <<>>]
      [] l.variant = "ASCII" ->
            [l EXCEPT !.waitingResponse = <<r>>, !.status = "idle", !.frame = <<>>]
      [] l.variant = "TCP" -> [l EXCEPT !.waitingResponse = <<r>>]

Entry(via, res, buffer, transaction, req) ==
    [via |-> via, error |-> res.error, frame |-> res.frame,
     buffer |-> IF res.error = "" THEN buffer ELSE <<>>,
     transaction |-> IF res.error = "" THEN transaction ELSE <<>>,
     req |-> req]

\* the callback the ASCII and TCP layers hand to framing: the outcome goes
\* to the wait's callback when a wait is registered (the client's callback
\* ends the wait), a frame without error is emitted otherwise
deliverAlso(l, lg, res, buffer, transaction) ==
    IF l.waitingResponse # <<>>
    THEN [layer |-> [l EXCEPT !.waitingResponse = stopWaitingResponse(@)],
          log   |-> Append(Append(lg, Entry("callback", res, buffer, transaction,
                                            <<callback(l.waitingResponse[1], res)>>)),
                           Entry("framing", res, buffer, transaction, <<>>))]
    ELSE IF res.error = ""
    THEN [layer |-> l, log |-> Append(lg, Entry("framing", res, buffer, transaction, <<>>))]
    ELSE [layer |-> l, log |-> lg]

\* the outcome 'Insufficient data length' kept from the wait's callback
deliverSufficient(l, lg, res, buffer, transaction) ==
    IF l.waitingResponse # <<>> /\ res.error # "Insufficient data length"
    THEN [layer |-> [l EXCEPT !.waitingResponse = stopWaitingResponse(@)],
          log   |-> Append(lg, Entry("callback", res, buffer, transaction,
                                     <<callback(l.waitingResponse[1], res)>>))]
    ELSE IF res.error = ""
    THEN [layer |-> l, log |-> Append(lg, Entry("framing", res, buffer, transaction, <<>>))]
    ELSE [layer |-> l, log |-> lg]

deliver(l, lg, res, buffer, transaction) ==
    IF l.waitingResponse # <<>>
    THEN [layer |-> [l EXCEPT !.waitingResponse = stopWaitingResponse(@)],
          log   |-> Append(lg, Entry("callback", res, buffer, transaction,
                                     <<callback(l.waitingResponse[1], res)>>))]
    ELSE IF res.error = ""
    THEN [layer |-> l, log |-> Append(lg, Entry("framing", res, buffer, transaction, <<>>))]
    ELSE [layer |-> l, log |-> lg]

\* the 3.5T callback of the RTU layer
handleTimerRtu(l, lg) ==
    LET res == framing(l.bufferRx, checksOf(l))
        l1  == [l EXCEPT !.timerThreePointFive = FALSE, !.bufferRx = <<>>]
    IN  IF res.error = ""
        THEN [layer |-> l1, log |-> Append(lg, Entry("framing", res, l.bufferRx, <<>>, <<>>))]
        ELSE [layer |-> l1, log |-> lg]

\* RtuApplicationLayer handleData; without a wait the 3.5T timer is set
\* again or, the interval being 0, its callback is called at once
handleDataRtu(l, lg, data) ==
    LET buffer == l.bufferRx \o data
        res    == framing(buffer, checksOf(l))
    IN  IF l.waitingResponse # <<>>
        THEN IF res.error = "Insufficient data length"
             THEN [layer |-> [l EXCEPT !.bufferRx = buffer], log |-> lg]
             ELSE LET d == deliver([l EXCEPT !.bufferRx = buffer], lg, res, buffer, <<>>)
                  IN  [layer |-> [d.layer EXCEPT !.bufferRx = <<>>], log |-> d.log]
        ELSE IF l.threePointFiveT # 0
        THEN [layer |-> [l EXCEPT !.bufferRx = buffer, !.timerThreePointFive = TRUE],
              log   |-> lg]
        ELSE handleTimerRtu([l EXCEPT !.bufferRx = buffer], lg)

\* AsciiApplicationLayer handleData: data.forEach over the characters
RECURSIVE handleDataAscii(_, _, _)
handleDataAscii(l, lg, data) ==
    IF data = <<>> THEN [layer |-> l, log |-> lg]
    ELSE LET value == Head(data)
             step  ==
               CASE l.status = "idle" ->
                      [layer |-> IF value = CHAR_CODE.COLON
                                 THEN [l EXCEPT !.status = "reception", !.frame = <<>>]
                                 ELSE l,
                       log   |-> lg]
                 [] l.status = "reception" ->
                      [layer |-> IF value = CHAR_CODE.COLON THEN [l EXCEPT !.frame = <<>>]
                                 ELSE IF value = CHAR_CODE.CR
                                 THEN [l EXCEPT !.status = "waiting end"]
                                 ELSE [l EXCEPT !.frame = Append(@, value)],
                       log   |-> lg]
                 [] l.status = "waiting end" ->
                      IF value = CHAR_CODE.COLON
                      THEN [layer |-> [l EXCEPT !.status = "reception", !.frame = <<>>],
                            log   |-> lg]
                      ELSE IF value = CHAR_CODE.LF
                      THEN deliver([l EXCEPT !.status = "idle"], lg,
                                   framingAscii(l.frame, checksOf(l)), l.frame, <<>>)
                      ELSE [layer |-> [l EXCEPT !.status = "idle"], log |-> lg]
         IN  handleDataAscii(step.layer, step.log, Tail(data))

\* TcpApplicationLayer handleData
handleDataTcp(l, lg, data) ==
    LET res == framingTcp(data, checksOf(l))
    IN  deliver(l, lg, res, data, IF res.error = "" THEN <<readUInt16BE(data, 0)>> ELSE <<>>)

\* the ASCII layer taking each burst from IDLE
handleDataPerBurst(l, lg, data) ==
    CASE l.variant = "RTU"   -> handleDataRtu(l, lg, data)
      [] l.variant = "ASCII" ->
            handleDataAscii([l EXCEPT !.status = "idle", !.frame = <<>>], lg, data)
      [] l.variant = "TCP"   -> handleDataTcp(l, lg, data)

handleData(l, lg, data) ==
    CASE l.variant = "RTU"   -> handleDataRtu(l, lg, data)
      [] l.variant = "ASCII" -> handleDataAscii(l, lg, data)
      [] l.variant = "TCP"   -> handleDataTcp(l, lg, data)

\* encode(adu) of the layer's variant, as its bytes on the wire
wire(variant, adu, transactionId) ==
    CASE variant = "RTU"   -> encode(adu)
      [] variant = "ASCII" -> encodeAscii(adu)
      [] variant = "TCP"   -> encodeTcp(adu, transactionId)

-----------------------------------------------------------------------------
(* Application layer: inputs and actions                                   *)

Adu(unit, fc, data) == [unit |-> unit, fc |-> fc, data |-> data, transaction |-> <<>>]

\* ADUs a peer encodes: the extreme unit and function codes, empty data,
\* data bytes that are the ASCII layer's delimiters
LayerAdus ==
    {Adu(u, fc, d) : u \in {0, 17, 255}, fc \in {0, 3, 255},
                     d \in {<<>>, <<0>>, <<58, 13, 10, 255>>}}

\* a request of the client whose write has resolved: timer armed, wait
\* about to be registered
Waiter(unit, fc, length) ==
    [NewRequest(unit, fc, length) EXCEPT !.pc = "written", !.timer = "armed", !.started = TRUE]

Waiters == {Waiter(17, 3, 3), Waiter(17, 1, 19), Waiter(1, 4, 1), Waiter(1, 2, 9)}

\* the request frame of r as the server receives it
requestFrame(r) == [unit |-> r.unit, fc |-> r.fc, data |-> U16(0) \o U16(r.length)]

\* 1,0,1,1,0,0,1,1, 1,1,0,1,0,1,1,0, 1,0,1: the bytes CD 6B 05
Coils19 == <<1, 0, 1, 1, 0, 0, 1, 1, 1, 1, 0, 1, 0, 1, 1, 0, 1, 0, 1>>

\* what the model callback of the server resolves with for request r
Values(r) ==
    IF r.fc \in {1, 2}
    THEN {SubSeq(Coils19, 1, r.length), [i \in 1..r.length |-> 1], [i \in 1..r.length |-> 0],
          [i \in 1..r.length |-> IF i = r.length THEN 1 ELSE 0]}
    ELSE {SubSeq(<<44609, 22098, 17216>>, 1, r.length), [i \in 1..r.length |-> 65535],
          [i \in 1..r.length |-> IF i = 1 THEN 0 ELSE 255]}

\* the server's normal response to r: the handler's .then() on the value
serverResponse(r, value) == Adu(r.unit, r.fc, thenData(requestFrame(r), value))

\* the server's exception response to r
exceptionResponse(r, code) == Adu(r.unit, Or80(r.fc), <<code>>)

TransactionIds == {1, 255, 4660}

\* the last byte of the wire format that belongs to the frame
lastOf(variant, buf) == IF variant = "ASCII" THEN Len(buf) - 2 ELSE Len(buf)

\* a buffer with one byte changed
corrupt(variant, buf) ==
    [buf EXCEPT ![lastOf(variant, buf)] = IF variant = "ASCII" THEN 71 ELSE (@ + 1) % 256]

\* what the transport may deliver in one 'data' event: well-formed frames
\* of every kind, the response to readInputRegisters(1, 0, 1) corrupted,
\* cut, doubled, and with one data byte more and one less than asked for
BurstsOf(variant) ==
    LET whole == {wire(variant, a, t) : a \in LayerAdus, t \in TransactionIds}
                 \cup UNION {{wire(variant, serverResponse(r, v), 1) : v \in Values(r)} :
                                r \in Waiters}
                 \cup {wire(variant, exceptionResponse(r, c), 1) : r \in Waiters, c \in {2, 4}}
        resp  == wire(variant, serverResponse(Waiter(1, 4, 1), <<44609>>), 1)
    IN  whole
        \cup {corrupt(variant, resp), SubSeq(resp, 1, 3), SubSeq(resp, 4, Len(resp)),
              resp \o resp}
        \cup {wire(variant, Adu(1, 4, <<2, 174, 65, 0>>), 1),
              wire(variant, Adu(1, 4, <<2, 174>>), 1)}
        \cup (IF variant = "TCP" THEN {[resp EXCEPT ![3] = 1], [resp EXCEPT ![6] = 9]} ELSE {})
        \cup (IF variant = "ASCII"
              THEN {[resp EXCEPT ![2] = 90], [resp EXCEPT ![3] = 97],
                    <<CHAR_CODE.COLON, 48, 49, CHAR_CODE.CR, CHAR_CODE.LF>>}
              ELSE {})

RtuBursts == BurstsOf("RTU")

AsciiBursts == BurstsOf("ASCII")

TcpBursts == BurstsOf("TCP")

LayerBursts(variant) ==
    CASE variant = "RTU"   -> RtuBursts
      [] variant = "ASCII" -> AsciiBursts
      [] variant = "TCP"   -> TcpBursts

\* new RtuApplicationLayer / AsciiApplicationLayer / TcpApplicationLayer
Construct ==
    \E v \in Variants :
        /\ layer.variant = "none"
        /\ layer' = [NoLayer EXCEPT !.variant = v]
        /\ UNCHANGED <<log, encoded, inbound>>
        /\ UNCHANGED slaveVars
        /\ UNCHANGED masterVars
        /\ UNCHANGED exchangeVars

\* encode(adu) of the TCP layer: the buffer is built with the ADU's
\* transaction id or, without one, the layer's counter; the counter advances
EncodeCall(adu) ==
    /\ layer.variant = "TCP"
    /\ encoded' = <<[adu |-> adu, before |-> layer.transactionId,
                     buffer |-> encodeTcp(adu, layer.transactionId)]>>
    /\ layer' = [layer EXCEPT !.transactionId = nextTransactionId(@)]
    /\ UNCHANGED <<log, inbound>>
    /\ UNCHANGED slaveVars
    /\ UNCHANGED masterVars
    /\ UNCHANGED exchangeVars

\* encode(adu) for a request of the client, an ADU without a transaction id
Encode ==
    /\ layer.transactionId <= MaxEncodes
    /\ EncodeCall(Adu(1, 3, <<0, 0, 0, 1>>))

\* startWaitingResponse for a request of the client
StartWaiting ==
    \E r \in Waiters :
        /\ layer.variant # "none"
        /\ Len(log) < MaxLog
        /\ layer' = startWaitingResponse(layer, r)
        /\ UNCHANGED <<log, encoded, inbound>>
        /\ UNCHANGED slaveVars
        /\ UNCHANGED masterVars
        /\ UNCHANGED exchangeVars

\* stopWaitingResponse called from outside the wait's callback (the
\* client's timer)
StopWaiting ==
    /\ layer.waitingResponse # <<>>
    /\ layer' = [layer EXCEPT !.waitingResponse = stopWaitingResponse(@)]
    /\ UNCHANGED <<log, encoded, inbound>>
    /\ UNCHANGED slaveVars
    /\ UNCHANGED masterVars
    /\ UNCHANGED exchangeVars

\* a 'data' event of the physical layer
LayerData(data) ==
    LET r == handleData(layer, log, data)
    IN  /\ layer.variant # "none"
        /\ Len(log) < MaxLog
        /\ Len(r.layer.bufferRx) <= MaxLayerBuf
        /\ Len(r.layer.frame) <= 2 * MaxLayerBuf
        /\ layer' = r.layer
        /\ log' = r.log
        /\ UNCHANGED <<encoded, inbound>>
        /\ UNCHANGED slaveVars
        /\ UNCHANGED masterVars
        /\ UNCHANGED exchangeVars

LayerReceive ==
    /\ layer.variant \in Variants
    /\ \E data \in LayerBursts(layer.variant) : LayerData(data)

\* the RTU layer's 3.5T timer elapses
LayerThreePointFive ==
    LET r == handleTimerRtu(layer, log)
    IN  /\ layer.timerThreePointFive
        /\ layer' = r.layer
        /\ log' = r.log
        /\ UNCHANGED <<encoded, inbound>>
        /\ UNCHANGED slaveVars
        /\ UNCHANGED masterVars
        /\ UNCHANGED exchangeVars

LayerNext ==
    Construct \/ Encode \/ StartWaiting \/ StopWaiting \/ LayerReceive \/ LayerThreePointFive

SpecLayers == Init /\ [][LayerNext]_vars

\* ADUs handed to encode: a client's request, without a transaction id, and
\* a server's responses, carrying the id of the frame received
EncoderAdus ==
    {Adu(1, 3, <<0, 0, 0, 1>>)}
    \cup {[Adu(1, 3, <<2, 174, 65>>) EXCEPT !.transaction = <<t>>] : t \in {0, 1, 255, 256, 4660, 65535}}

\* any call of encode
EncodeAny == \E adu \in EncoderAdus : EncodeCall(adu)

EncoderNext == Construct \/ EncodeAny

SpecEncoder == Init /\ [][EncoderNext]_vars

-----------------------------------------------------------------------------
(* A client over the MBAP layer: requests, their timeout, responses        *)

MaxTcpRequests == 3

\* the register reads a client issues
TcpReads == {Waiter(1, 4, 1), Waiter(1, 3, 1)}

\* readInputRegisters(1, 0, 1) or readHoldingRegisters(1, 0, 1) up to the
\* registration of its wait: the request is encoded under the layer's
\* transaction id, written, and once the write has resolved
\* startWaitingResponse is called with the pre-checks of writeFC3Or4
TcpRequest ==
    \E r \in TcpReads :
    LET adu == Adu(r.unit, r.fc, requestFrame(r).data)
    IN  /\ layer.variant = "TCP"
        /\ layer.waitingResponse = <<>>
        /\ layer.transactionId <= MaxTcpRequests
        /\ Len(log) < MaxLog
        /\ encoded' = <<[adu |-> adu, before |-> layer.transactionId,
                         buffer |-> encodeTcp(adu, layer.transactionId)]>>
        /\ layer' = startWaitingResponse(
                        [layer EXCEPT !.transactionId = nextTransactionId(@)], r)
        /\ UNCHANGED <<log, inbound>>
        /\ UNCHANGED slaveVars
        /\ UNCHANGED masterVars
        /\ UNCHANGED exchangeVars

\* what a server sends back for these reads, under the transaction id of
\* this or of another request
TcpResponses ==
    {encodeTcp([a EXCEPT !.transaction = <<t>>], 1) :
        a \in {serverResponse(r, <<v>>) : r \in TcpReads, v \in {0, 44609}}
               \cup {exceptionResponse(r, 2) : r \in TcpReads},
        t \in 1..(MaxTcpRequests + 1)}

\* a 'data' event with a response
TcpReceive ==
    /\ layer.variant = "TCP"
    /\ \E data \in TcpResponses : LayerData(data)

TcpClientNext == Construct \/ TcpRequest \/ StopWaiting \/ TcpReceive

SpecTcpClient == Init /\ [][TcpClientNext]_vars

-----------------------------------------------------------------------------
(* A byte stream delivered to a layer in bursts cut at any positions       *)

\* two frames as the ASCII encoder writes them
FrameA == encodeAscii(Adu(17, 3, <<0>>))

FrameB == encodeAscii(Adu(1, 4, <<2, 174, 65>>))

\* byte streams on an ASCII line: two frames; bytes before a ':'; a frame
\* cut off by the ':' of the next, in its characters and after its CR; a
\* CR followed by another byte than LF; a frame with a wrong LRC; the
\* characters G0 and 0 LF where a byte is expected; a frame too short and
\* one with an odd number of characters; CR LF and LF without a frame
AsciiStreams ==
    {FrameA \o FrameB,
     <<48, 49, CHAR_CODE.LF>> \o FrameA,
     SubSeq(FrameA, 1, 5) \o FrameB,
     SubSeq(FrameA, 1, Len(FrameA) - 1) \o FrameB,
     SubSeq(FrameA, 1, Len(FrameA) - 1) \o <<48, CHAR_CODE.LF>> \o FrameB,
     [FrameB EXCEPT ![Len(FrameB) - 2] = 71] \o FrameA,
     <<CHAR_CODE.COLON, 71, 48, 48, 48, 48, 48, CHAR_CODE.CR, CHAR_CODE.LF>> \o FrameA,
     <<CHAR_CODE.COLON, 48, CHAR_CODE.LF, 48, 51, 70, 68, CHAR_CODE.CR, CHAR_CODE.LF>>,
     <<CHAR_CODE.COLON, 48, 49, CHAR_CODE.CR, CHAR_CODE.LF>> \o FrameA,
     <<CHAR_CODE.COLON, 48, 49, 48, 51, 48, 48, 70, CHAR_CODE.CR, CHAR_CODE.LF>> \o FrameB,
     <<CHAR_CODE.CR, CHAR_CODE.LF, CHAR_CODE.LF>> \o FrameB}

\* the response to readInputRegisters(1, 0, 1) as the RTU encoder writes it
RtuResponse == encode(Adu(1, 4, <<2, 174, 65>>))

\* byte streams on an RTU line: a response; a response and a second frame
\* behind it; a response with a wrong CRC and the response again
RtuStreams ==
    {RtuResponse,
     RtuResponse \o encode(Adu(17, 3, <<0>>)),
     [RtuResponse EXCEPT ![Len(RtuResponse)] = (@ + 1) % 256] \o RtuResponse}

StreamsOf(variant) ==
    CASE variant = "ASCII" -> AsciiStreams
      [] variant = "RTU" -> RtuStreams
      [] OTHER -> {}

\* new RtuApplicationLayer on a transport that is not serial: the interval
\* between frames is 0
ConstructRtuOver ==
    /\ layer.variant = "none"
    /\ layer' = [NoLayer EXCEPT !.variant = "RTU", !.threePointFiveT = 0]
    /\ UNCHANGED <<log, encoded, inbound>>
    /\ UNCHANGED slaveVars
    /\ UNCHANGED masterVars
    /\ UNCHANGED exchangeVars

\* handleClose of the layer: the RTU layer clears its timer and its
\* buffer, the ASCII layer returns to idle with an empty frame; the TCP
\* layer has no such handler
handleClose(l) ==
    CASE l.variant = "RTU"   -> [l EXCEPT !.timerThreePointFive = FALSE, !.bufferRx = <<>>]
      [] l.variant = "ASCII" -> [l EXCEPT !.status = "idle", !.frame = <<>>]
      [] OTHER -> l

\* the transport starts to deliver a stream
StreamStart ==
    \E stream \in StreamsOf(layer.variant) :
        /\ inbound = NoStream
        /\ inbound' = [stream |-> stream, pos |-> 0, bursts |-> 0, from |-> 0]
        /\ UNCHANGED <<layer, log, encoded>>
        /\ UNCHANGED slaveVars
        /\ UNCHANGED masterVars
        /\ UNCHANGED exchangeVars

\* a 'data' event with the next bytes of the stream, however many
StreamDeliver ==
    \E n \in 1..(Len(inbound.stream) - inbound.pos) :
        LET r == handleData(layer, log, SubSeq(inbound.stream, inbound.pos + 1, inbound.pos + n))
        IN  /\ layer' = r.layer
            /\ log' = r.log
            /\ inbound' = [inbound EXCEPT !.pos = @ + n, !.bursts = @ + 1]
            /\ UNCHANGED encoded
            /\ UNCHANGED slaveVars
            /\ UNCHANGED masterVars
            /\ UNCHANGED exchangeVars

\* the 'close' event of the physical layer while a stream is under way
StreamClose ==
    /\ inbound.stream # <<>>
    /\ layer' = handleClose(layer)
    /\ inbound' = [inbound EXCEPT !.from = inbound.pos]
    /\ UNCHANGED <<log, encoded>>
    /\ UNCHANGED slaveVars
    /\ UNCHANGED masterVars
    /\ UNCHANGED exchangeVars

\* startWaitingResponse for readInputRegisters(1, 0, 1) while a stream is
\* under way
StreamWait ==
    /\ inbound.stream # <<>>
    /\ layer.waitingResponse = <<>>
    /\ layer' = startWaitingResponse(layer, Waiter(1, 4, 1))
    /\ inbound' = [inbound EXCEPT !.from = inbound.pos]
    /\ UNCHANGED <<log, encoded>>
    /\ UNCHANGED slaveVars
    /\ UNCHANGED masterVars
    /\ UNCHANGED exchangeVars

StreamNext ==
    Construct \/ ConstructRtuOver \/ StreamStart \/ StreamDeliver \/ LayerThreePointFive
    \/ StreamClose \/ StreamWait \/ StopWaiting

SpecStream == Init /\ [][StreamNext]_vars

-----------------------------------------------------------------------------
(* ModbusSlave: handleFC22 and handleFC43_14                               *)

\* a & b and a | b on non-negative integers
RECURSIVE BitAnd(_, _)
BitAnd(a, b) ==
    IF a = 0 \/ b = 0 THEN 0
    ELSE (a % 2) * (b % 2) + 2 * BitAnd(a \div 2, b \div 2)

BitOr(a, b) == a + b - BitAnd(a, b)

\* (value & andMask) | (orMask & (~andMask & 0xff))
maskValue(value, andMask, orMask) ==
    BitOr(BitAnd(value, andMask), BitAnd(orMask, 255 - (andMask % 256)))

\* the synchronous part of handleFC22: maskWriteRegister, or the read that
\* starts the fallback
handleFC22(model, frame) ==
    IF Len(frame.data) # 6 THEN Drop
    ELSE IF ~(\/ "maskWriteRegister" \in model.has
              \/ ("readHoldingRegisters" \in model.has /\ "writeSingleRegister" \in model.has))
    THEN Err(ILLEGAL_FUNCTION)
    ELSE LET address == readUInt16BE(frame.data, 0)
             andMask == readUInt16BE(frame.data, 2)
             orMask  == readUInt16BE(frame.data, 4)
         IN  IF ~checkRange(<<address>>, model.addressRange.holdingRegisters)
             THEN Err(ILLEGAL_DATA_ADDRESS)
             ELSE IF "maskWriteRegister" \in model.has
             THEN Call(<<Invoke("maskWriteRegister", address, <<andMask, orMask>>)>>)
             ELSE Call(<<Invoke("readHoldingRegisters", address, <<1>>)>>)

\* the .then() of the fallback's read: ([value]) => writeSingleRegister(...)
thenFC22(frame, value) ==
    Invoke("writeSingleRegister", readUInt16BE(frame.data, 0),
           <<maskValue(value, readUInt16BE(frame.data, 2), readUInt16BE(frame.data, 4))>>)

\* Buffer.from(value) of a string, a sequence of character codes below
\* 0x800: UTF-8, one byte below 0x80 and two from there
utf8(value) ==
    Flatten([i \in 1..Len(value) |->
                IF value[i] < 128 THEN <<value[i]>>
                ELSE <<192 + (value[i] \div 64), 128 + (value[i] % 64)>>])

\* 'null'
NullString == <<110, 117, 108, 108>>

\* objects.set(id, value) on a Map kept as a sequence of <<id, value>>
mapSet(objects, id, value) ==
    IF \E i \in 1..Len(objects) : objects[i][1] = id
    THEN [i \in 1..Len(objects) |-> IF objects[i][1] = id THEN <<id, value>> ELSE objects[i]]
    ELSE Append(objects, <<id, value>>)

\* the Map of handleFC43_14: the ids 0, 1 and 2 with 'null', then the
\* entries of the identification whose key is an integer in 0..255, in
\* the order of Object.entries
RECURSIVE objectsOf(_, _)
objectsOf(objects, entries) ==
    IF entries = <<>> THEN objects
    ELSE LET id == Head(entries)[1]
         IN  objectsOf(IF id >= 0 /\ id <= 255 THEN mapSet(objects, id, Head(entries)[2])
                       ELSE objects,
                       Tail(entries))

\* the object id the request is taken to start at (the switch on the read
\* code); -1 for the ILLEGAL_DATA_ADDRESS of read code 4, -2 for the
\* ILLEGAL_DATA_VALUE of any other read code
startObjectId(readDeviceIDCode, objectID) ==
    CASE readDeviceIDCode = 1 ->
            IF objectID > 2 \/ (objectID > 6 /\ objectID < 128) THEN 0 ELSE objectID
      [] readDeviceIDCode = 2 ->
            IF objectID >= 128 \/ (objectID > 6 /\ objectID < 128) THEN 0 ELSE objectID
      [] readDeviceIDCode = 3 ->
            IF objectID > 6 /\ objectID < 128 THEN 0 ELSE objectID
      [] readDeviceIDCode = 4 ->
            IF objectID > 6 /\ objectID < 128 THEN -1 ELSE objectID
      [] OTHER -> -2

\* the for loop over objects.entries(); st is [ids, totalLength, lastID,
\* conformityLevel, error]: error is 0 or the code of the responseError the
\* loop returned with
RECURSIVE packObjects(_, _, _, _)
packObjects(objects, readDeviceIDCode, objectID, st) ==
    IF objects = <<>> THEN st
    ELSE LET id    == Head(objects)[1]
             value == Head(objects)[2]
             lvl   == IF id > 128 THEN 131 ELSE IF id > 2 THEN 130 ELSE st.conformityLevel
             st1   == [st EXCEPT !.conformityLevel = lvl]
             rest  == Tail(objects)
         IN  IF id < 0 \/ (id >= 7 /\ id <= 127) \/ id > 255
             THEN [st EXCEPT !.error = SERVER_DEVICE_FAILURE]
             ELSE IF objectID > id THEN packObjects(rest, readDeviceIDCode, objectID, st1)
             ELSE IF Len(value) > 245 THEN [st1 EXCEPT !.error = SERVER_DEVICE_FAILURE]
             ELSE IF st1.lastID # 0 THEN packObjects(rest, readDeviceIDCode, objectID, st1)
             ELSE IF Len(value) + 2 > 253 - st1.totalLength
             THEN packObjects(rest, readDeviceIDCode, objectID, [st1 EXCEPT !.lastID = id])
             ELSE LET st2 == [st1 EXCEPT !.totalLength = @ + Len(value) + 2,
                                         !.ids = Append(@, id)]
                  IN  IF readDeviceIDCode = 4 THEN st2
                      ELSE packObjects(rest, readDeviceIDCode, objectID, st2)

\* ids.sort((a, b) => a - b)
RECURSIVE sortIds(_)
sortIds(ids) ==
    IF ids = <<>> THEN <<>>
    ELSE LET m == CHOOSE i \in 1..Len(ids) : \A j \in 1..Len(ids) : ids[i] <= ids[j]
         IN  <<ids[m]>> \o sortIds(SubSeq(ids, 1, m - 1) \o SubSeq(ids, m + 1, Len(ids)))

valueOf(objects, id) == objects[CHOOSE i \in 1..Len(objects) : objects[i][1] = id][2]

\* what handleFC43_14 did: kind "drop", "error" (responseError with code)
\* or "data" (the response with that data); objects is the Map, start the
\* object id the loop started at and ids the ids packed
Served(kind, code, data, objects, start, ids) ==
    [kind |-> kind, code |-> code, data |-> data, objects |-> objects, start |-> start,
     ids |-> ids]

\* handleFC43_14 with readDeviceIdentification resolving with the entries
handleFC43_14(model, frame, entries) ==
    IF Len(frame.data) # 3 THEN Served("drop", 0, <<>>, <<>>, 0, <<>>)
    ELSE IF ~(frame.data[1] = 14 /\ "readDeviceIdentification" \in model.has)
    THEN Served("error", ILLEGAL_FUNCTION, <<>>, <<>>, 0, <<>>)
    ELSE LET readDeviceIDCode == frame.data[2]
             switched == startObjectId(readDeviceIDCode, frame.data[3])
             objects  == objectsOf(<<<<0, NullString>>, <<1, NullString>>, <<2, NullString>>>>,
                                   entries)
             known    == \E i \in 1..Len(objects) : objects[i][1] = switched
             start    == IF known THEN switched ELSE 0
             st       == packObjects(objects, readDeviceIDCode, start,
                                     [ids |-> <<>>, totalLength |-> 10, lastID |-> 0,
                                      conformityLevel |-> 129, error |-> 0])
             ids      == sortIds(st.ids)
         IN  IF switched = -1 THEN Served("error", ILLEGAL_DATA_ADDRESS, <<>>, <<>>, 0, <<>>)
             ELSE IF switched = -2 THEN Served("error", ILLEGAL_DATA_VALUE, <<>>, <<>>, 0, <<>>)
             ELSE IF ~known /\ readDeviceIDCode = 4
             THEN Served("error", ILLEGAL_DATA_ADDRESS, <<>>, objects, 0, <<>>)
             ELSE IF st.error # 0 THEN Served("error", st.error, <<>>, objects, start, <<>>)
             ELSE Served("data", 0,
                         <<14, readDeviceIDCode, st.conformityLevel,
                           IF st.lastID = 0 THEN 0 ELSE 255, st.lastID, Len(ids)>>
                             \o Flatten([i \in 1..Len(ids) |->
                                           <<ids[i], Len(valueOf(objects, ids[i]))>>
                                               \o utf8(valueOf(objects, ids[i]))]),
                         objects, start, ids)

-----------------------------------------------------------------------------
(* Server: what the specification says of a request, stated from its table *)
(* of function codes and not from the handlers.                            *)

HandledFcs == {1, 2, 3, 4, 5, 6, 15, 16, 23}

\* the PDU grammar
Grammar(f) ==
    CASE f.fc \in {1, 2, 3, 4, 5, 6} -> Len(f.data) = 4
      [] f.fc \in {15, 16} -> Len(f.data) > 5 /\ Len(f.data) = 5 + f.data[5]
      [] f.fc = 23 -> Len(f.data) > 9 /\ Len(f.data) = 9 + f.data[9]
      [] OTHER -> TRUE

\* the callback(s) the function code needs
Implemented(m, f) ==
    CASE f.fc = 1  -> "readCoils" \in m.has
      [] f.fc = 2  -> "readDiscreteInputs" \in m.has
      [] f.fc = 3  -> "readHoldingRegisters" \in m.has
      [] f.fc = 4  -> "readInputRegisters" \in m.has
      [] f.fc = 5  -> "writeSingleCoil" \in m.has
      [] f.fc = 6  -> "writeSingleRegister" \in m.has
      [] f.fc = 15 -> m.has \cap {"writeMultipleCoils", "writeSingleCoil"} # {}
      [] f.fc = 16 -> m.has \cap {"writeMultipleRegisters", "writeSingleRegister"} # {}
      [] f.fc = 23 -> /\ "readHoldingRegisters" \in m.has
                      /\ m.has \cap {"writeMultipleRegisters", "writeSingleRegister"} # {}
      [] OTHER -> FALSE

Word(f, i) == f.data[i] * 256 + f.data[i + 1]

\* the count and value bounds
InBounds(f) ==
    CASE f.fc \in {1, 2} -> Word(f, 3) \in 1..2000
      [] f.fc \in {3, 4} -> Word(f, 3) \in 1..125
      [] f.fc = 5  -> Word(f, 3) \in {0, 65280}
      [] f.fc = 6  -> TRUE
      [] f.fc = 15 -> Word(f, 3) \in 1..1968 /\ f.data[5] = Ceil(Word(f, 3), 8)
      [] f.fc = 16 -> Word(f, 3) \in 1..123 /\ f.data[5] = Word(f, 3) * 2
      [] f.fc = 23 -> /\ Word(f, 3) \in 1..125
                      /\ Word(f, 7) \in 1..121
                      /\ f.data[9] = Word(f, 7) * 2
      [] OTHER -> TRUE

\* the permitted ranges of the table the function code addresses, asked
\* about the first address and the one past the last
Permitted(m, f) ==
    CASE f.fc \in {1, 15} ->
            checkRange(<<Word(f, 1), Word(f, 1) + Word(f, 3)>>, m.addressRange.coils)
      [] f.fc = 2 ->
            checkRange(<<Word(f, 1), Word(f, 1) + Word(f, 3)>>, m.addressRange.discreteInputs)
      [] f.fc \in {3, 16} ->
            checkRange(<<Word(f, 1), Word(f, 1) + Word(f, 3)>>, m.addressRange.holdingRegisters)
      [] f.fc = 4 ->
            checkRange(<<Word(f, 1), Word(f, 1) + Word(f, 3)>>, m.addressRange.inputRegisters)
      [] f.fc = 5 -> checkRange(<<Word(f, 1)>>, m.addressRange.coils)
      [] f.fc = 6 -> checkRange(<<Word(f, 1)>>, m.addressRange.holdingRegisters)
      [] f.fc = 23 ->
            checkRange(<<Word(f, 1), Word(f, 1) + Word(f, 3),
                         Word(f, 5), Word(f, 5) + Word(f, 7)>>,
                       m.addressRange.holdingRegisters)
      [] OTHER -> TRUE

\* the one check that fails first, 0 when none does
FirstFailure(m, f) ==
    IF f.fc \notin HandledFcs THEN ILLEGAL_FUNCTION
    ELSE IF ~Implemented(m, f) THEN ILLEGAL_FUNCTION
    ELSE IF ~InBounds(f) THEN ILLEGAL_DATA_VALUE
    ELSE IF ~Permitted(m, f) THEN ILLEGAL_DATA_ADDRESS
    ELSE 0

\* buf is the exception response to f with this code: unit, fc | 0x80, one
\* byte of payload, two bytes of CRC
IsException(buf, f, code) ==
    Len(buf) = 5 /\ buf[1] = f.unit /\ buf[2] = Or80(f.fc) /\ buf[3] = code

IsSomeException(buf, f) == Len(buf) = 5 /\ buf[1] = f.unit /\ buf[2] = Or80(f.fc)

\* buf is the normal response to f with this payload
IsNormal(buf, f, data) ==
    Len(buf) = Len(data) + 4 /\ SubSeq(buf, 1, Len(data) + 2) = <<f.unit, f.fc>> \o data

\* the callbacks of the model, the interceptor aside, that a dispatch invoked
Callbacks(t) == SelectSeq(t.calls, LAMBDA c : c.name # "interceptor")

\* the calls of a dispatch that threw or rejected
Failed(t) == {j \in 1..Len(t.calls) : t.calls[j].out \in {"threw", "rejected"}}

-----------------------------------------------------------------------------
(* Server: claims                                                          *)

\* C1: for a frame with unit 0 the transport's reply closure is never
\* invoked, whatever the function code, the registered models, the
\* interceptor's result and the outcome of the callbacks; the frame is
\* still dispatched to every model: an interceptor is invoked, and without
\* one the callback of a request that passes the handler's checks is.
C1_BroadcastNeverReplies ==
    (rx # <<>> /\ rx[1].unit = 0) =>
        /\ sent = <<>>
        /\ Len(tasks) = Len(models)
        /\ \A i \in 1..Len(tasks) :
              LET t == tasks[i]
              IN  /\ "interceptor" \in t.model.has => t.calls # <<>>
                  /\ ("interceptor" \notin t.model.has /\ Grammar(rx[1])
                      /\ FirstFailure(t.model, rx[1]) = 0) => t.calls # <<>>

\* a broadcast dispatched to two models, both chains ended, callbacks
\* invoked and the response closure called, nothing handed to the transport
C1_Witness ==
    /\ rx # <<>> /\ rx[1].unit = 0
    /\ Len(tasks) = 2
    /\ \A i \in 1..2 : tasks[i].pc = "done" /\ tasks[i].replies = 1 /\ Callbacks(tasks[i]) # <<>>
    /\ \E i \in 1..2 : Failed(tasks[i]) # {}
    /\ sent = <<>>

C7_CallbackFailureAnswered ==
    (rx # <<>> /\ rx[1].unit # 0) =>
        \A i \in 1..Len(tasks) :
            (\E j \in Failed(tasks[i]) : tasks[i].calls[j].name # "interceptor") =>
                /\ tasks[i].pc = "done"
                /\ tasks[i].replies = 1
                /\ Len(sent) = 1 /\ IsSomeException(sent[1], rx[1])

\* the expected code of an error: the code its message encodes when that
\* is one of the nine exception codes, SERVER_DEVICE_FAILURE otherwise
ExpectedCode(err) ==
    IF startsWith(err, PREFIX) /\ NumberOf(SubSeq(err, Len(PREFIX) + 1, Len(err))) \in ErrorCode
    THEN NumberOf(SubSeq(err, Len(PREFIX) + 1, Len(err)))
    ELSE SERVER_DEVICE_FAILURE

\* C8: the exception response that answers a rejected callback or
\* interceptor carries the code encoded in the rejection's message when
\* that is one of the nine exception codes and SERVER_DEVICE_FAILURE
\* otherwise; the code byte of every exception response is one of the nine.
C8_CodeFromMessage ==
    (rx # <<>> /\ rx[1].unit # 0) =>
        /\ \A i \in 1..Len(tasks) : \A j \in Failed(tasks[i]) :
              (tasks[i].pc = "done" /\ Len(sent) = 1) =>
                  IsException(sent[1], rx[1], ExpectedCode(tasks[i].calls[j].err))
        /\ \A k \in 1..Len(sent) :
              IsSomeException(sent[k], rx[1]) /\ rx[1].fc < 128 => sent[k][3] \in ErrorCode

\* the registrations of a map: the unit a model is registered under is
\* model.unit, 1 when it has none
RegisteredUnit(m) == IF m.unit = <<>> THEN 1 ELSE m.unit[1]

Registrations(ms) == {<<RegisteredUnit(ms[i]), ms[i]>> : i \in 1..Len(ms)}

\* C9: a unicast frame to a unit nothing is registered under invokes no
\* callback and writes nothing; a unicast frame to a registered unit is
\* dispatched to that model only; a broadcast is dispatched to every
\* registered model.  add registers the model under its unit (1 by
\* default) in place of any model registered there, remove takes the
\* unit's model away, so no unit is ever registered twice.
C9_Dispatch ==
    /\ [](\A i, j \in 1..Len(models) :
             i # j => RegisteredUnit(models[i]) # RegisteredUnit(models[j]))
    /\ [](rx # <<>> /\ rx[1].unit # 0
          /\ (\A i \in 1..Len(models) : RegisteredUnit(models[i]) # rx[1].unit)
             => tasks = <<>> /\ sent = <<>>)
    /\ [][(rx = <<>> /\ rx' # <<>>) =>
            LET f   == rx'[1]
                reg == {i \in 1..Len(models) : RegisteredUnit(models[i]) = f.unit}
            IN  /\ (f.unit # 0 /\ reg # {}) =>
                      Len(tasks') = 1 /\ \E i \in reg : tasks'[1].model = models[i]
                /\ f.unit = 0 =>
                      /\ Len(tasks') = Len(models)
                      /\ \A i \in 1..Len(models) : tasks'[i].model = models[i]]_vars
    /\ [][rx # <<>> =>
            /\ Len(tasks') = Len(tasks)
            /\ \A i \in 1..Len(tasks) : tasks'[i].model = tasks[i].model]_vars
    /\ [][models' # models =>
            \/ \E m \in ModelPool :
                  Registrations(models') =
                      {e \in Registrations(models) : e[1] # RegisteredUnit(m)}
                      \cup {<<RegisteredUnit(m), m>>}
            \/ \E u \in Units :
                  Registrations(models') = {e \in Registrations(models) : e[1] # u}]_vars

\* two models registered, a frame for unit 2 dispatched to the model of
\* unit 2 alone, which answered
C9_Witness ==
    /\ rx # <<>> /\ rx[1].unit = 2
    /\ Len(models) = 2 /\ ModelA \in Range(models) /\ ModelD \in Range(models)
    /\ Len(tasks) = 1 /\ tasks[1].model = ModelD /\ tasks[1].calls # <<>>
    /\ Len(sent) = 1

\* C10: for a unicast request to a model with an interceptor: a payload
\* from the interceptor is sent as the one normal response, with the
\* request's unit and function code, and no callback is invoked; an
\* interceptor that throws or rejects is answered by one exception
\* response and no callback is invoked; an interceptor that yields nothing
\* lets the handler run as it does without an interceptor.
C10_Interceptor ==
    (rx # <<>> /\ rx[1].unit # 0) =>
        \A i \in 1..Len(tasks) :
            LET f    == rx[1]
                t    == tasks[i]
                bare == [t.model EXCEPT !.has = @ \ {"interceptor"}]
            IN  (t.calls # <<>> /\ t.calls[1].name = "interceptor") =>
                  /\ t.calls[1].out = "resolved" =>
                        /\ Callbacks(t) = <<>> /\ t.pc = "done"
                        /\ Len(sent) = 1 /\ IsNormal(sent[1], f, t.calls[1].ret)
                  /\ t.calls[1].out \in {"threw", "rejected"} =>
                        /\ Callbacks(t) = <<>> /\ t.pc = "done"
                        /\ Len(sent) = 1 /\ IsSomeException(sent[1], f)
                  /\ t.calls[1].out = "nothing" =>
                        /\ (f.fc \in HandledFcs /\ ~Grammar(f)) =>
                              Callbacks(t) = <<>> /\ sent = <<>>
                        /\ (Grammar(f) /\ FirstFailure(bare, f) # 0) =>
                              /\ Callbacks(t) = <<>>
                              /\ Len(sent) = 1 /\ IsException(sent[1], f, FirstFailure(bare, f))
                        /\ (Grammar(f) /\ FirstFailure(bare, f) = 0) <=> Callbacks(t) # <<>>

-----------------------------------------------------------------------------
(* Client: claims                                                          *)

\* C2: a request with unit 0 resolves with no frame once its write has
\* completed; startWaitingResponse is never called for it and no timer is
\* armed, so it never fails with 'Timeout' or 'Invalid response'.
C2_BroadcastRequest ==
    \A i \in 1..Len(reqs) :
        reqs[i].unit = 0 =>
            /\ ~reqs[i].started
            /\ reqs[i].timer = "none"
            /\ waiting # <<i>>
            /\ reqs[i].pc = "written" =>
                  /\ reqs[i].state = "fulfilled" /\ reqs[i].value = <<>>
                  /\ reqs[i].resolves = 1 /\ reqs[i].rejects = 0
            /\ reqs[i].state = "rejected" => reqs[i].error \notin {"Timeout", "Invalid response"}

\* a broadcast request resolved while a unicast request waits for its
\* response
C2_Witness ==
    \E i, j \in 1..Len(reqs) :
        /\ reqs[i].unit = 0 /\ reqs[i].pc = "written" /\ reqs[i].state = "fulfilled"
        /\ reqs[j].unit # 0 /\ waiting = <<j>> /\ reqs[j].timer = "armed"

\* C3: a unicast request whose write completed has its timer armed as long
\* as nothing ended its wait; when the timer expires the request is
\* rejected with 'Timeout' and no response-wait remains registered.
C3_Timeout ==
    /\ [](\A i \in 1..Len(reqs) :
             (reqs[i].unit # 0 /\ reqs[i].pc = "written" /\ reqs[i].state = "pending")
                 => reqs[i].timer = "armed")
    /\ [][\A i \in 1..Len(reqs) :
             (reqs[i].timer = "armed" /\ reqs'[i].timer = "fired") =>
                 /\ reqs[i].unit # 0 /\ reqs[i].pc = "written"
                 /\ reqs'[i].state = "rejected" /\ reqs'[i].error = "Timeout"
                 /\ reqs'[i].rejects = 1 /\ reqs'[i].resolves = 0
                 /\ waiting' = <<>>]_vars

\* a request rejected by its timer after a partial response had arrived
C3_Witness ==
    \E i \in 1..Len(reqs) :
        /\ reqs[i].timer = "fired" /\ reqs[i].state = "rejected" /\ reqs[i].error = "Timeout"
        /\ waiting = <<>> /\ bufferRx # <<>>

\* request i is the only unicast request not yet settled
SinglePending(i) ==
    {j \in 1..Len(reqs) : reqs[j].unit # 0 /\ reqs[j].state = "pending"} = {i}

\* C4: when the bytes that arrive complete a frame that passes the
\* pre-checks and the CRC while request i is the single pending unicast
\* request, the request resolves with that frame (its registers decoded),
\* its timer is cancelled and the wait removed; a request settles at most
\* once, and no later timer expiry or inbound frame changes how it settled.
C4_ResolveOnce ==
    /\ [](\A i \in 1..Len(reqs) : reqs[i].resolves + reqs[i].rejects <= 1)
    /\ [](\A i \in 1..Len(reqs) :
             (reqs[i].unit # 0 /\ reqs[i].state = "fulfilled")
                 => reqs[i].timer = "cleared" /\ waiting # <<i>>)
    /\ [][\A i \in 1..Len(reqs) : \A d \in Bursts :
             LET res == framing(bufferRx \o d, waitingPreCheck)
             IN  (waiting = <<i>> /\ SinglePending(i) /\ res.error = "" /\ Data(d)) =>
                    /\ reqs'[i].state = "fulfilled"
                    /\ reqs'[i].value =
                          <<[unit |-> res.frame.unit, fc |-> res.frame.fc,
                             data |-> <<res.frame.data[2] * 256 + res.frame.data[3]>>]>>
                    /\ reqs'[i].resolves = 1
                    /\ reqs'[i].timer = "cleared"
                    /\ waiting' = <<>>]_vars
    /\ [][\A i \in 1..Len(reqs) :
             reqs[i].state # "pending" =>
                 /\ reqs'[i].state = reqs[i].state
                 /\ reqs'[i].value = reqs[i].value
                 /\ reqs'[i].error = reqs[i].error
                 /\ reqs'[i].resolves = reqs[i].resolves
                 /\ reqs'[i].rejects = reqs[i].rejects]_vars

\* a request resolved with the register 0xAE41, timer cancelled, wait
\* removed, and bytes that arrived afterwards waiting for the 3.5T timer
C4_Witness ==
    \E i \in 1..Len(reqs) :
        /\ reqs[i].unit = 1 /\ reqs[i].state = "fulfilled"
        /\ reqs[i].value = <<[unit |-> 1, fc |-> 3, data |-> <<44609>>]>>
        /\ reqs[i].timer = "cleared" /\ waiting = <<>>
        /\ timerThreePointFive /\ bufferRx # <<>>

\* C5: while the RTU layer waits for the response to an FC3 request, the
\* valid response delivered in two bursts, split at any byte position,
\* resolves the request: the first burst (a non-empty proper prefix) does
\* not fail the wait, and the second, which completes the frame, resolves
\* the request with the decoded registers.
C5_SplitResponse ==
    [][\A i \in 1..Len(reqs) :
          LET R == ValidResponse(reqs[i])
          IN  \A k \in 1..(Len(R) - 1) :
                /\ (/\ waiting = <<i>> /\ reqs[i].state = "pending" /\ bufferRx = <<>>
                    /\ Data(SubSeq(R, 1, k)))
                      => reqs'[i].state = "pending" /\ waiting' = <<i>>
                /\ (/\ waiting = <<i>> /\ reqs[i].state = "pending"
                    /\ bufferRx = SubSeq(R, 1, k)
                    /\ Data(SubSeq(R, k + 1, Len(R))))
                      => /\ reqs'[i].state = "fulfilled"
                         /\ reqs'[i].value =
                              <<[unit |-> reqs[i].unit, fc |-> reqs[i].fc,
                                 data |-> [n \in 1..reqs[i].length |-> 44609]]>>]_vars

-----------------------------------------------------------------------------
(* One request served and answered: the server's handler run to its end    *)
(* with every callback resolving, its response framed by an RTU layer that *)
(* waits with the client's pre-checks, and the client's .then().           *)
(* ex is [kind, ...]: kind "fc22", "fc23" or "fc43" after the action of    *)
(* that request; the other fields are described at each action.  A         *)
(* behaviour follows one request.                                          *)

\* what the promise of the request method becomes when buffer arrives as
\* one burst while the wait with the checks is registered: [error, frame]
\* of framing, and the state of the promise ('Insufficient data length' is
\* not handed to the wait's callback, the request stays pending)
received(checks, buffer) ==
    LET res == framing(buffer, checks)
    IN  [error |-> res.error, frame |-> res.frame,
         state |-> IF res.error = "" THEN "fulfilled"
                   ELSE IF res.error = "Insufficient data length" THEN "pending"
                   ELSE "rejected"]

\* the .then() of readAndWriteMultipleRegisters: read.length registers read
\* from frame.data.slice(1); readUInt16BE past the end throws, <<>> here
decodeFC23(readLength, frame) ==
    IF Len(frame.data) - 1 < readLength * 2 THEN <<>>
    ELSE <<[k \in 1..readLength |-> readUInt16BE(Tail(frame.data), (k - 1) * 2)]>>

\* the .then() of readDeviceIdentification
decodeFC43_14(readDeviceIDCode, frame) ==
    LET objects == walkObjects(SubSeq(frame.data, 7, Len(frame.data)))
    IN  [readDeviceIDCode |-> readDeviceIDCode,
         conformityLevel  |-> frame.data[3],
         moreFollows      |-> frame.data[4] = 255,
         nextObjectId     |-> frame.data[5],
         objects |-> [i \in 1..Len(objects) |->
                         [id |-> objects[i].id, value |-> fromUtf8(objects[i].bytes)]]]

\* the models the requests are served by
MaskModels ==
    {[unit |-> <<1>>, has |-> {"maskWriteRegister"}, addressRange |-> NoRanges],
     [unit |-> <<1>>, has |-> {"readHoldingRegisters", "writeSingleRegister"},
      addressRange |-> NoRanges],
     [unit |-> <<1>>, has |-> {"readHoldingRegisters", "writeSingleRegister"},
      addressRange |-> [NoRanges EXCEPT !.holdingRegisters = Single(0, 9)]],
     [unit |-> <<1>>, has |-> {"readHoldingRegisters"}, addressRange |-> NoRanges]}

\* register values and masks: single bits of either byte, whole bytes,
\* mixed patterns
Masks == {0, 1, 255, 256, 4660, 61680, 65535}

\* FC22 (address, andMask, orMask) served by model m, whose
\* readHoldingRegisters resolves with [v].  ex is [kind, model, frame,
\* value, calls, sent]: the callbacks invoked in order and the buffers
\* handed to the response closure
MaskWrite ==
    \E m \in MaskModels, address \in {4, 10}, andMask \in Masks, orMask \in Masks, v \in Masks :
        LET frame == [unit |-> 1, fc |-> 22, data |-> U16(address) \o U16(andMask) \o U16(orMask)]
            plan  == handleFC22(m, frame)
            calls == IF plan.kind # "call" THEN <<>>
                     ELSE IF "maskWriteRegister" \in m.has
                     THEN <<[plan.calls[1] EXCEPT !.out = "resolved"]>>
                     ELSE <<[plan.calls[1] EXCEPT !.out = "resolved", !.ret = <<v>>],
                            [thenFC22(frame, v) EXCEPT !.out = "resolved"]>>
            out   == IF plan.kind = "error"
                     THEN response(frame, encode(errorAdu(frame, getErrorByCode(plan.code))))
                     ELSE response(frame, encode(frame))
        IN  /\ ex = NoExchange
            /\ ex' = [kind |-> "fc22", model |-> m, frame |-> frame, value |-> v,
                      calls |-> calls, sent |-> out]
            /\ UNCHANGED slaveVars
            /\ UNCHANGED masterVars
            /\ UNCHANGED layerVars

\* n registers the server reads
Registers(n) == SubSeq(<<44609, 22098, 17216>>, 1, n)

ReadWriteModel ==
    [unit |-> <<1>>, has |-> {"readHoldingRegisters", "writeMultipleRegisters"},
     addressRange |-> NoRanges]

\* the request ADU of readAndWriteMultipleRegisters(unit, read, write)
requestFC23(unit, readAddress, readLength, writeAddress, value) ==
    [unit |-> unit, fc |-> 23,
     data |-> U16(readAddress) \o U16(readLength) \o U16(writeAddress) \o U16(Len(value))
                 \o <<Len(value) * 2>> \o packRegisters(value)]

\* readAndWriteMultipleRegisters(1, {0, readLength}, {16, writeLength
\* values}).  The response is the server's (handleFC23 with the read
\* resolving with readLength registers) or another FC23 response: the
\* registers of another length, a byte count that is not the length, a
\* byte short.  ex is [kind, readLength, writeLength, served, data, error,
\* state, value]: served the data of the server's response, data the data
\* of the response received
ReadWriteRegisters ==
    \E readLength \in 1..3, writeLength \in 1..3 :
        LET frame  == requestFC23(1, 0, readLength, 16, [i \in 1..writeLength |-> 255 + i])
            plan   == handleFC23(ReadWriteModel, frame)
            served == thenData(frame, Registers(readLength))
            checks == preCheckFC23(1, 23, writeLength * 2)
        IN  /\ ex = NoExchange
            /\ plan.kind = "call"
            /\ \E data \in {served}
                           \cup {<<2 * n>> \o packRegisters(Registers(n)) : n \in 1..3}
                           \cup {<<2 * readLength + 1>> \o packRegisters(Registers(readLength)),
                                 SubSeq(served, 1, Len(served) - 1)} :
                 LET r == received(checks, encode([unit |-> 1, fc |-> 23, data |-> data]))
                 IN  ex' = [kind |-> "fc23", readLength |-> readLength,
                            writeLength |-> writeLength, served |-> served, data |-> data,
                            error |-> r.error,
                            state |-> IF r.state = "fulfilled"
                                         /\ decodeFC23(readLength, r.frame) = <<>>
                                      THEN "rejected" ELSE r.state,
                            value |-> IF r.state = "fulfilled"
                                      THEN decodeFC23(readLength, r.frame) ELSE <<>>]
            /\ UNCHANGED slaveVars
            /\ UNCHANGED masterVars
            /\ UNCHANGED layerVars

\* a string of n characters
Str(n) == [i \in 1..n |-> 65 + (n % 26)]

DeviceModel == [unit |-> <<1>>, has |-> {"readDeviceIdentification"}, addressRange |-> NoRanges]

\* what readDeviceIdentification of the model resolves with, as the
\* <<key, value>> pairs of Object.entries (integer keys ascending)
Identifications ==
    {<<>>,
     <<<<0, Str(6)>>, <<1, Str(4)>>, <<2, Str(3)>>>>,
     <<<<0, Str(2)>>, <<1, Str(0)>>, <<2, Str(5)>>>>,
     <<<<0, Str(2)>>, <<1, Str(1)>>, <<2, Str(5)>>>>,
     <<<<0, <<233, 65>>>>, <<1, Str(2)>>, <<2, Str(2)>>>>,
     <<<<0, Str(2)>>, <<1, Str(2)>>, <<2, Str(2)>>, <<3, Str(8)>>, <<6, Str(2)>>>>,
     <<<<0, Str(2)>>, <<1, Str(2)>>, <<2, Str(2)>>, <<128, Str(3)>>>>,
     <<<<0, Str(2)>>, <<1, Str(2)>>, <<2, Str(2)>>, <<3, Str(3)>>, <<129, Str(4)>>, <<255, Str(2)>>>>,
     <<<<0, Str(100)>>, <<1, Str(100)>>, <<2, Str(100)>>, <<4, Str(20)>>>>,
     <<<<0, Str(241)>>, <<1, Str(2)>>, <<2, Str(2)>>>>,
     <<<<0, Str(244)>>, <<1, Str(2)>>, <<2, Str(2)>>>>,
     <<<<0, Str(2)>>, <<1, Str(245)>>, <<2, Str(2)>>>>,
     <<<<0, Str(2)>>, <<1, Str(2)>>, <<2, Str(246)>>>>,
     <<<<0, Str(2)>>, <<1, Str(2)>>, <<2, Str(2)>>, <<7, Str(2)>>>>,
     <<<<0, Str(2)>>, <<1, Str(2)>>, <<2, Str(2)>>, <<300, Str(2)>>>>}

ReadCodes == 0..5

ObjectIds == {0, 1, 2, 3, 4, 6, 7, 127, 128, 129, 255}

\* readDeviceIdentification(1, readDeviceIDCode, objectId) served by a model
\* whose callback resolves with the entries.  ex is [kind, entries, code,
\* objectId, served, error, state, value]: served is what handleFC43_14
\* did ([kind, code, data]), the rest what the client made of the response
DeviceIdentification ==
    \E entries \in Identifications, code \in ReadCodes, objectId \in ObjectIds :
        LET frame  == [unit |-> 1, fc |-> 43, data |-> <<14, code, objectId>>]
            served == handleFC43_14(DeviceModel, frame, entries)
            adu    == IF served.kind = "data" THEN [unit |-> 1, fc |-> 43, data |-> served.data]
                      ELSE errorAdu(frame, getErrorByCode(served.code))
            r      == received(preCheckFC43_14(1, 43, code), encode(adu))
        IN  /\ ex = NoExchange
            /\ ex' = [kind |-> "fc43", entries |-> entries, code |-> code,
                      objectId |-> objectId, served |-> served, error |-> r.error,
                      state |-> r.state,
                      value |-> IF r.state = "fulfilled"
                                THEN <<decodeFC43_14(code, r.frame)>> ELSE <<>>]
            /\ UNCHANGED slaveVars
            /\ UNCHANGED masterVars
            /\ UNCHANGED layerVars

ExchangeNext == MaskWrite \/ ReadWriteRegisters \/ DeviceIdentification

SpecExchange == Init /\ [][ExchangeNext]_vars

-----------------------------------------------------------------------------
(* Device identification read as a stream: the request repeated from the   *)
(* next object id while the response says that more follows                *)

MaxReads == 7

\* identifications whose ids are object ids and whose values are at most
\* 245 bytes long
StreamIdentifications ==
    {<<>>,
     <<<<0, Str(6)>>, <<1, Str(4)>>, <<2, Str(3)>>>>,
     <<<<0, Str(2)>>, <<1, Str(2)>>, <<2, Str(2)>>, <<3, Str(8)>>, <<6, Str(2)>>>>,
     <<<<0, Str(2)>>, <<1, Str(2)>>, <<2, Str(2)>>, <<3, Str(3)>>, <<129, Str(4)>>, <<255, Str(2)>>>>,
     <<<<0, Str(100)>>, <<1, Str(100)>>, <<2, Str(100)>>, <<4, Str(20)>>>>,
     <<<<0, Str(100)>>, <<1, Str(100)>>, <<2, Str(2)>>, <<3, Str(100)>>>>,
     <<<<0, Str(200)>>, <<1, Str(200)>>, <<2, Str(200)>>, <<3, Str(200)>>, <<128, Str(200)>>>>,
     <<<<0, Str(100)>>, <<1, Str(100)>>, <<2, Str(2)>>, <<128, Str(100)>>, <<129, Str(240)>>>>,
     <<<<0, Str(241)>>, <<1, Str(2)>>, <<2, Str(2)>>>>,
     <<<<0, Str(244)>>, <<1, Str(2)>>, <<2, Str(2)>>>>,
     <<<<0, Str(2)>>, <<1, Str(245)>>, <<2, Str(2)>>>>}

\* the stream read begins: read code 1, 2 or 3 from object id 0.  ex is
\* [kind, entries, code, objectId, responses, done]: objectId is the id the
\* next request carries, responses what handleFC43_14 answered so far
ReadStreamStart ==
    \E entries \in StreamIdentifications, code \in {1, 2, 3} :
        /\ ex = NoExchange
        /\ ex' = [kind |-> "stream", entries |-> entries, code |-> code, objectId |-> 0,
                  responses |-> <<>>, done |-> FALSE]
        /\ UNCHANGED slaveVars
        /\ UNCHANGED masterVars
        /\ UNCHANGED layerVars

\* one request of the stream served by handleFC43_14; the read goes on
\* from next-object-id when the response has more-follows = 0xFF and is
\* over with any other response
ReadStreamStep ==
    /\ ex # NoExchange
    /\ ex.kind = "stream"
    /\ ~ex.done
    /\ Len(ex.responses) < MaxReads
    /\ LET frame  == [unit |-> 1, fc |-> 43, data |-> <<14, ex.code, ex.objectId>>]
           served == handleFC43_14(DeviceModel, frame, ex.entries)
           more   == served.kind = "data" /\ served.data[4] = 255
       IN  ex' = [ex EXCEPT !.responses = Append(@, served),
                            !.objectId  = IF more THEN served.data[5] ELSE @,
                            !.done      = ~more]
    /\ UNCHANGED slaveVars
    /\ UNCHANGED masterVars
    /\ UNCHANGED layerVars

ReadStreamNext == ReadStreamStart \/ ReadStreamStep

SpecReadStream == Init /\ [][ReadStreamNext]_vars

-----------------------------------------------------------------------------
(* checkRange called on its own                                            *)

MaxPoint == 5

\* the points queried: one address, or the two ends a handler passes
Points == {<<p>> : p \in 0..MaxPoint} \cup {<<p, q>> : p, q \in 0..MaxPoint}

\* intervals, lo < hi, lo = hi and lo > hi
Intervals == {<<lo, hi>> : lo, hi \in {1, 2, 4}}

\* the ranges a model may configure: none, one interval, a list of none,
\* one or two intervals
ConfiguredRanges ==
    {NoRange} \cup {Single(iv[1], iv[2]) : iv \in Intervals}
    \cup {List(<<>>)} \cup {List(<<iv>>) : iv \in Intervals}
    \cup {List(<<iv, jv>>) : iv, jv \in Intervals}

\* checkRange(value, range) is called and returns
CheckRange ==
    \E value \in Points, range \in ConfiguredRanges :
        /\ ex = NoExchange
        /\ ex' = [kind |-> "checkRange", value |-> value, range |-> range,
                  result |-> checkRange(value, range)]
        /\ UNCHANGED slaveVars
        /\ UNCHANGED masterVars
        /\ UNCHANGED layerVars

SpecRange == Init /\ [][CheckRange]_vars

-----------------------------------------------------------------------------
(* Application layers and client decoding: claims                          *)

\* the 'framing' event that delivers ADU a, decoded from buffer
EventOf(a, buffer, transaction) ==
    [via |-> "framing", error |-> "",
     frame |-> [unit |-> a.unit, fc |-> a.fc, data |-> a.data],
     buffer |-> buffer, transaction |-> transaction, req |-> <<>>]

\* C11: in each variant, encode(adu) fed as one burst to a layer that has
\* no wait registered (and, for RTU, an empty receive buffer) yields
\* exactly one 'framing' event whose unit, fc and data are the ADU's, for
\* unit and fc 0 and 255, empty data and data bytes 0, 255 and the ASCII
\* delimiters; the MBAP event carries the transaction id the encoder wrote.
\* The RTU layer emits it when its 3.5T callback runs on that buffer.
C11_RoundTrip ==
    /\ (layer.variant \in {"ASCII", "TCP"} /\ layer.waitingResponse = <<>>) =>
          \A a \in LayerAdus : \A t \in TransactionIds :
              handleData(layer, log, wire(layer.variant, a, t)).log
                  = Append(log,
                           IF layer.variant = "TCP"
                           THEN EventOf(a, encodeTcp(a, t), <<t>>)
                           ELSE EventOf(a, SubSeq(encodeAscii(a), 2, Len(encodeAscii(a)) - 2),
                                        <<>>))
    /\ (layer.variant = "RTU" /\ layer.waitingResponse = <<>> /\ layer.bufferRx = <<>>) =>
          \A a \in LayerAdus :
              LET d == handleData(layer, log, encode(a))
              IN  /\ d.layer.bufferRx = encode(a)
                  /\ d.layer.timerThreePointFive
                  /\ d.log = log
                  /\ handleTimerRtu(d.layer, d.log).log = Append(log, EventOf(a, encode(a), <<>>))

\* the MBAP layer emitted the ADU with unit 255, fc 255 and four data bytes
\* under the transaction id 0x1234
C11_Witness ==
    /\ layer.variant = "TCP"
    /\ log = <<EventOf(Adu(255, 255, <<58, 13, 10, 255>>),
                       encodeTcp(Adu(255, 255, <<58, 13, 10, 255>>), 4660), <<4660>>)>>

\* the checksum rule of a variant on the buffer of a delivered frame
ChecksumValid(variant, buffer) ==
    CASE variant = "RTU" ->
            /\ Len(buffer) >= 4
            /\ buffer[Len(buffer) - 1] + 256 * buffer[Len(buffer)]
                  = crc(SubSeq(buffer, 1, Len(buffer) - 2))
      [] variant = "ASCII" ->
            LET bytes == asciiBytes(buffer)
            IN  /\ Len(bytes) >= 3
                /\ bytes[Len(bytes)] = lrc(SubSeq(bytes, 1, Len(bytes) - 1))
      [] variant = "TCP" ->
            /\ Len(buffer) >= 8
            /\ buffer[3] = 0 /\ buffer[4] = 0
            /\ buffer[5] * 256 + buffer[6] = Len(buffer) - 6

\* C12: every frame a layer delivers, through the 'framing' event or to
\* the callback of a wait, has a valid checksum for its variant: the RTU
\* buffer ends with the CRC-16 of the bytes before it, low byte first; the
\* last byte decoded from the ASCII characters is the LRC of the bytes
\* before it; the MBAP protocol field is 0 and its length field is the
\* buffer length less 6.
C12_ValidChecksum ==
    layer.variant \in Variants =>
        \A i \in 1..Len(log) :
            log[i].error = "" => ChecksumValid(layer.variant, log[i].buffer)

\* the ASCII layer handed a frame to the callback of a wait
C12_Witness ==
    /\ layer.variant = "ASCII"
    /\ Len(log) = 1
    /\ log[1].via = "callback" /\ log[1].error = "" /\ log[1].frame.unit = 17

\* C13: a layer holds at most one wait.  startWaitingResponse registers
\* the new wait in place of any other and stopWaitingResponse removes the
\* wait, neither calling a callback.  While a wait is registered, whatever
\* the layer delivers goes to the callback of that wait and not to the
\* 'framing' event; the client's callback ends the wait, and only frames
\* decoded after that (the rest of an ASCII burst) are emitted.
C13_SingleWait ==
    /\ [](Len(layer.waitingResponse) <= 1)
    /\ [][StartWaiting => log' = log /\ Len(layer'.waitingResponse) = 1]_vars
    /\ [][StopWaiting => log' = log /\ layer'.waitingResponse = <<>>]_vars
    /\ [][(layer.waitingResponse # <<>> /\ layer'.waitingResponse # <<>>) => log' = log]_vars
    /\ [][(layer.waitingResponse # <<>> /\ log' # log) =>
            /\ Len(log') > Len(log)
            /\ SubSeq(log', 1, Len(log)) = log
            /\ LET e == log'[Len(log) + 1]
               IN  /\ e.via = "callback"
                   /\ e.req = <<callback(layer.waitingResponse[1],
                                         [error |-> e.error, frame |-> e.frame])>>
            /\ layer'.waitingResponse = <<>>
            /\ \A k \in (Len(log) + 2)..Len(log') :
                  layer.variant = "ASCII" /\ log'[k].via = "framing"]_vars

\* one ASCII burst with two frames while a wait was registered: the first
\* went to the callback, which ended the wait, the second was emitted
C13_Witness ==
    /\ layer.variant = "ASCII"
    /\ Len(log) = 2
    /\ log[1].via = "callback" /\ log[1].req # <<>>
    /\ log[2].via = "framing"
    /\ layer.waitingResponse = <<>>

\* C14: for FC1/FC2 and FC3/FC4, in each variant: the server's response to
\* a request (built by the handler from the count values its callback
\* returned: the byte count, then bits packed from bit 0 of each byte or
\* registers as big-endian words) passes the pre-checks of the client's
\* wait, and the client resolves with exactly those values in order.  The
\* 19 coils 1,0,1,1,0,0,1,1,1,1,0,1,0,1,1,0,1,0,1 are packed as CD 6B 05.
C14_DecodeInvertsEncode ==
    /\ [](thenData(requestFrame(Waiter(17, 1, 19)), Coils19) = <<3, 205, 107, 5>>)
    /\ [][\A r \in Waiters : \A v \in Values(r) :
            (/\ layer.variant \in Variants
             /\ layer.waitingResponse = <<r>>
             /\ layer.bufferRx = <<>>
             /\ LayerData(wire(layer.variant, serverResponse(r, v), 1)))
                => /\ Len(log') = Len(log) + 1
                   /\ LET e == log'[Len(log') ]
                      IN  /\ e.via = "callback" /\ e.error = ""
                          /\ e.req[1].state = "fulfilled"
                          /\ e.req[1].resolves = 1 /\ e.req[1].rejects = 0
                          /\ e.req[1].value[1].unit = r.unit
                          /\ e.req[1].value[1].fc = r.fc
                          /\ e.req[1].value[1].data = v]_vars

\* the RTU client resolved readCoils(17, 0, 19) with the 19 coils, and
\* the registers 0xAE41 0x5652 0x4340 are what FC3 resolves with
C14_Witness ==
    /\ layer.variant = "RTU"
    /\ Len(log) = 1
    /\ log[1].via = "callback"
    /\ log[1].req[1].unit = 17 /\ log[1].req[1].fc = 1
    /\ log[1].req[1].state = "fulfilled"
    /\ log[1].req[1].value[1].data = Coils19

\* C15: in each variant, when the exception response to the pending
\* request arrives (the request's unit, fc | 0x80, one code byte), the
\* wait's callback is called with 'Invalid response': the request is
\* rejected with that error, its timer is cancelled and the wait removed.
C15_ExceptionRejected ==
    [][\A r \in Waiters : \A c \in {2, 4} :
          (/\ layer.variant \in Variants
           /\ layer.waitingResponse = <<r>>
           /\ layer.bufferRx = <<>>
           /\ LayerData(wire(layer.variant, exceptionResponse(r, c), 1)))
              => /\ Len(log') = Len(log) + 1
                 /\ LET e == log'[Len(log')]
                    IN  /\ e.via = "callback" /\ e.error = "Invalid response"
                        /\ e.req[1].state = "rejected"
                        /\ e.req[1].error = "Invalid response"
                        /\ e.req[1].resolves = 0 /\ e.req[1].rejects = 1
                        /\ e.req[1].timer = "cleared"
                 /\ layer'.waitingResponse = <<>>]_vars

\* the MBAP client's FC3 request rejected with 'Invalid response', its
\* timer cancelled
C15_Witness ==
    /\ layer.variant = "TCP"
    /\ Len(log) = 1
    /\ log[1].via = "callback" /\ log[1].error = "Invalid response"
    /\ log[1].req[1].fc = 3
    /\ log[1].req[1].state = "rejected" /\ log[1].req[1].timer = "cleared"
    /\ layer.waitingResponse = <<>>

-----------------------------------------------------------------------------
(* Client and server: further claims                                       *)

\* request i was written and waits for its response
InFlight(i) == reqs[i].unit # 0 /\ reqs[i].pc = "written" /\ reqs[i].state = "pending"

\* C16: a request whose write fails is rejected with the transport's
\* error, no timer armed; when the connection closes while a unicast
\* request is in flight, the request is rejected then, with an error
\* other than 'Timeout', and is not left pending for its timer.
C16_TransportFailure ==
    /\ [](\A i \in 1..Len(reqs) :
             reqs[i].pc = "failed" =>
                 /\ reqs[i].state = "rejected" /\ reqs[i].error = "Port is not open"
                 /\ reqs[i].timer = "none")
    /\ [][\A i \in 1..Len(reqs) :
             (Close /\ InFlight(i)) =>
                 reqs'[i].state = "rejected" /\ reqs'[i].error # "Timeout"]_vars
    /\ [](\A i \in 1..Len(reqs) : ~open => ~InFlight(i))

\* the handler of the model ran on the frame: no interceptor, or one that
\* yielded nothing
HandlerRan(t) ==
    \/ "interceptor" \notin t.model.has
    \/ t.calls # <<>> /\ t.calls[1].name = "interceptor" /\ t.calls[1].out = "nothing"

\* the model of a dispatch, its interceptor aside
Bare(t) == [t.model EXCEPT !.has = @ \ {"interceptor"}]

\* C17: for a unicast request with a valid PDU grammar whose callback is
\* present, the count or value decides between ILLEGAL_DATA_VALUE and
\* going on to the address check: FC1/FC2 accept 1..2000, FC3/FC4 1..125,
\* FC5 0x0000 and 0xFF00, FC6 any value, FC15 1..1968 with byteCount =
\* ceil(count / 8), FC16 1..123 with byteCount = 2 * count, FC23 a read
\* count in 1..125 and a write count in 1..121 with byteCount = 2 * write
\* count; anything else is answered ILLEGAL_DATA_VALUE, the only response,
\* without a callback.
C17_CountLimits ==
    (rx # <<>> /\ rx[1].unit # 0) =>
        \A i \in 1..Len(tasks) :
            LET f == rx[1]
                t == tasks[i]
            IN  (/\ HandlerRan(t) /\ f.fc \in HandledFcs
                 /\ Grammar(f) /\ Implemented(Bare(t), f)) =>
                    IF InBounds(f)
                    THEN ~(/\ Callbacks(t) = <<>>
                           /\ \E k \in 1..Len(sent) : IsException(sent[k], f, ILLEGAL_DATA_VALUE))
                    ELSE /\ Callbacks(t) = <<>>
                         /\ Len(sent) = 1
                         /\ IsException(sent[1], f, ILLEGAL_DATA_VALUE)

\* FC15 for 1968 coils handed to writeMultipleCoils in one call and
\* answered with the echo of the request's first four bytes
C17_Witness ==
    /\ rx # <<>> /\ rx[1].unit = 1 /\ rx[1].fc = 15 /\ Word(rx[1], 3) = 1968
    /\ Len(tasks) = 1 /\ tasks[1].model = ModelE
    /\ Len(tasks[1].calls) = 1
    /\ tasks[1].calls[1].name = "writeMultipleCoils" /\ Len(tasks[1].calls[1].value) = 1968
    /\ Len(sent) = 1 /\ IsNormal(sent[1], rx[1], SubSeq(rx[1].data, 1, 4))

\* the range configured for the table a read or a multi-element write
\* addresses
TableRange(m, f) ==
    CASE f.fc \in {1, 15} -> m.addressRange.coils
      [] f.fc = 2         -> m.addressRange.discreteInputs
      [] f.fc \in {3, 16} -> m.addressRange.holdingRegisters
      [] f.fc = 4         -> m.addressRange.inputRegisters

\* the elements the request addresses: addr .. addr + count - 1
Addressed(f) == Word(f, 1)..(Word(f, 1) + Word(f, 3) - 1)

Within(e, iv) == iv[1] <= e /\ e <= iv[2]

\* C18: with a permitted interval or list of intervals configured for the
\* addressed table, a read or multi-element write that passed the earlier
\* checks is answered ILLEGAL_DATA_ADDRESS exactly when one of the
\* elements addr .. addr + count - 1 lies in no permitted interval, and a
\* request whose elements all lie in one permitted interval is executed.
C18_AddressWindow ==
    (rx # <<>> /\ rx[1].unit # 0) =>
        \A i \in 1..Len(tasks) :
            LET f   == rx[1]
                t   == tasks[i]
                ivs == TableRange(t.model, f).ivs
                someOutside == \E e \in Addressed(f) : \A k \in 1..Len(ivs) : ~Within(e, ivs[k])
                allInOne    == \E k \in 1..Len(ivs) : \A e \in Addressed(f) : Within(e, ivs[k])
                refused     == /\ Callbacks(t) = <<>>
                               /\ Len(sent) = 1
                               /\ IsException(sent[1], f, ILLEGAL_DATA_ADDRESS)
            IN  (/\ HandlerRan(t) /\ f.fc \in {1, 2, 3, 4, 15, 16}
                 /\ Grammar(f) /\ Implemented(Bare(t), f) /\ InBounds(f)
                 /\ TableRange(t.model, f).kind # "undefined") =>
                    /\ someOutside <=> refused
                    /\ allInOne => Callbacks(t) # <<>>

\* the single-write calls that emulate the multi-element write of f
Emulation(f) ==
    [k \in 1..Word(f, 3) |->
        [name    |-> IF f.fc = 15 THEN "writeSingleCoil" ELSE "writeSingleRegister",
         address |-> Word(f, 1) + k - 1,
         value   |-> IF f.fc = 15 THEN <<BitAt(f.data, 5, k - 1)>>
                     ELSE <<Word(f, 6 + (k - 1) * 2)>>]]

\* what was called, with what
Invoked(cs) ==
    [k \in 1..Len(cs) |-> [name |-> cs[k].name, address |-> cs[k].address, value |-> cs[k].value]]

\* the model emulates the multi-element write of f
Emulates(m, f) ==
    \/ f.fc = 15 /\ "writeSingleCoil" \in m.has /\ "writeMultipleCoils" \notin m.has
    \/ f.fc = 16 /\ "writeSingleRegister" \in m.has /\ "writeMultipleRegisters" \notin m.has

\* C19: a valid unicast FC15 or FC16 request to a model with the
\* single-write callback and without the multi-write one invokes the
\* single-write callback once per offset i in 0..count-1, with address
\* addr + i and the i-th decoded value; at most one response is sent in
\* any order of completion: the echo of the first four request bytes once
\* every element write has resolved, and, once an element write has
\* failed, exactly one exception response with the code of that failure.
C19_EmulatedMultiWrite ==
    (rx # <<>> /\ rx[1].unit # 0) =>
        \A i \in 1..Len(tasks) :
            LET f == rx[1]
                t == tasks[i]
                w == Callbacks(t)
            IN  (/\ HandlerRan(t) /\ Emulates(t.model, f)
                 /\ Grammar(f) /\ FirstFailure(Bare(t), f) = 0) =>
                    /\ Invoked(w) = Emulation(f)
                    /\ Len(sent) <= 1 /\ t.replies <= 1
                    /\ (\A k \in 1..Len(w) : w[k].out = "resolved") =>
                          Len(sent) = 1 /\ IsNormal(sent[1], f, SubSeq(f.data, 1, 4))
                    /\ (\E k \in 1..Len(w) : w[k].out = "pending") /\ Failed(t) = {} => sent = <<>>
                    /\ \A j \in Failed(t) :
                          /\ t.pc = "done"
                          /\ Len(sent) = 1
                          /\ IsException(sent[1], f, ExpectedCode(t.calls[j].err))

\* the write calls and the read calls of an FC23 dispatch
Writes(t) == SelectSeq(t.calls, LAMBDA c : c.name \in {"writeMultipleRegisters", "writeSingleRegister"})

Reads(t) == SelectSeq(t.calls, LAMBDA c : c.name = "readHoldingRegisters")

\* C20: for a valid unicast FC23 request readHoldingRegisters is invoked
\* only after the write (writeMultipleRegisters, or every emulated
\* writeSingleRegister) has resolved, and once; when the write fails,
\* readHoldingRegisters is not invoked and one exception response is sent.
C20_WriteThenRead ==
    (rx # <<>> /\ rx[1].unit # 0) =>
        \A i \in 1..Len(tasks) :
            LET f == rx[1]
                t == tasks[i]
            IN  (/\ HandlerRan(t) /\ f.fc = 23
                 /\ Grammar(f) /\ FirstFailure(Bare(t), f) = 0) =>
                    /\ Writes(t) # <<>>
                    /\ Len(Reads(t)) <= 1
                    /\ Reads(t) # <<>> =>
                          \A k \in 1..Len(Writes(t)) : Writes(t)[k].out = "resolved"
                    /\ (\E k \in 1..Len(Writes(t)) : Writes(t)[k].out \in {"threw", "rejected"}) =>
                          /\ Reads(t) = <<>>
                          /\ t.pc = "done"
                          /\ Len(sent) = 1 /\ IsSomeException(sent[1], f)

-----------------------------------------------------------------------------
(* Mask write, read/write registers and device identification: claims      *)

\* C21: a model without maskWriteRegister that has readHoldingRegisters
\* and writeSingleRegister serves FC22 (addr, andMask, orMask), addr
\* permitted, by reading one register at addr and writing back
\* (v AND andMask) OR (orMask AND NOT andMask) over all 16 bits, v the
\* value read, and then sends the echo of the request.
C21_MaskWriteFallback ==
    (/\ ex.kind = "fc22"
     /\ "maskWriteRegister" \notin ex.model.has
     /\ {"readHoldingRegisters", "writeSingleRegister"} \subseteq ex.model.has
     /\ checkRange(<<Word(ex.frame, 1)>>, ex.model.addressRange.holdingRegisters)) =>
        LET address == Word(ex.frame, 1)
            andMask == Word(ex.frame, 3)
            orMask  == Word(ex.frame, 5)
        IN  /\ Invoked(ex.calls)
                 = <<[name |-> "readHoldingRegisters", address |-> address, value |-> <<1>>],
                     [name |-> "writeSingleRegister", address |-> address,
                      value |-> <<BitOr(BitAnd(ex.value, andMask),
                                        BitAnd(orMask, 65535 - andMask))>>]>>
            /\ ex.sent = <<encode(ex.frame)>>

\* C22: the client accepts an FC23 response exactly when its data are
\* 1 + 2 * readLength bytes of which the first is 2 * readLength, whatever
\* the write length, and resolves with the readLength registers, each the
\* big-endian word of its two bytes; the server's response is accepted.
C22_ReadWriteResponse ==
    ex.kind = "fc23" =>
        LET wellFormed == /\ Len(ex.data) = 1 + 2 * ex.readLength
                          /\ ex.data[1] = 2 * ex.readLength
        IN  /\ (ex.state = "fulfilled") <=> wellFormed
            /\ wellFormed =>
                  ex.value = <<[k \in 1..ex.readLength |->
                                   ex.data[2 * k] * 256 + ex.data[2 * k + 1]]>>
            /\ ex.data = ex.served => ex.state = "fulfilled"

\* the objects of a response, as the server encoded them
Encoded(served) ==
    [i \in 1..Len(served.ids) |->
        [id |-> served.ids[i], value |-> valueOf(served.objects, served.ids[i])]]

RECURSIVE SumSeq(_)
SumSeq(ns) == IF ns = <<>> THEN 0 ELSE Head(ns) + SumSeq(Tail(ns))

\* C23: for every normal FC43/14 response of the server, the pre-check of
\* readDeviceIdentification returns 6 plus the sum of 2 + value length
\* over the objects of the response, the response is accepted, and the
\* request resolves with the (id, value) list, the conformity level, the
\* more-follows flag and the next object id the server encoded.
C23_DeviceIdRoundTrip ==
    (ex.kind = "fc43" /\ ex.served.kind = "data") =>
        /\ checkDeviceId(ex.code, [unit |-> 1, fc |-> 43, data |-> ex.served.data])
              = Num(6 + SumSeq([i \in 1..Len(ex.served.ids) |->
                                   2 + Len(utf8(valueOf(ex.served.objects, ex.served.ids[i])))]))
        /\ ex.state = "fulfilled"
        /\ ex.value = <<[readDeviceIDCode |-> ex.code,
                         conformityLevel  |-> ex.served.data[3],
                         moreFollows      |-> ex.served.data[4] = 255,
                         nextObjectId     |-> ex.served.data[5],
                         objects          |-> Encoded(ex.served)]>>

\* the longest run of objects, in the order given, that fit one after the
\* other under valueLen + 2 <= 253 - running, and the id of the object that
\* did not fit (-1 when all fit)
RECURSIVE Run(_, _)
Run(objects, running) ==
    IF objects = <<>> THEN [ids |-> <<>>, stop |-> -1]
    ELSE IF Len(Head(objects)[2]) + 2 <= 253 - running
    THEN LET r == Run(Tail(objects), running + Len(Head(objects)[2]) + 2)
         IN  [ids |-> <<Head(objects)[1]>> \o r.ids, stop |-> r.stop]
    ELSE [ids |-> <<>>, stop |-> Head(objects)[1]]

\* C24: a normal response to a stream read (read code 1, 2 or 3) starting
\* at object id s holds, in ascending id order, the longest run of the
\* objects with id >= s that fit under valueLen + 2 <= 253 - running
\* (running seeded at 10); when an object does not fit, packing stops
\* there, next-object-id is its id and more-follows is 0xFF; when all fit,
\* next-object-id is 0 and more-follows 0x00.  A normal response to read
\* code 4 holds exactly one object, the requested one.
C24_Packing ==
    (ex.kind = "fc43" /\ ex.served.kind = "data") =>
        LET from == SelectSeq(ex.served.objects, LAMBDA o : o[1] >= ex.served.start)
            run  == Run(from, 10)
        IN  IF ex.code = 4
            THEN ex.served.ids = <<ex.objectId>> /\ ex.served.data[6] = 1
            ELSE /\ ex.served.ids = run.ids
                 /\ ex.served.data[6] = Len(run.ids)
                 /\ ex.served.data[4] = (IF run.stop = -1 THEN 0 ELSE 255)
                 /\ ex.served.data[5] = (IF run.stop = -1 THEN 0 ELSE run.stop)

\* C25: the conformity level byte of every normal FC43/14 response is 0x83
\* when the model's object set has an id above 0x80, else 0x82 when it has
\* an id in 0x03..0x80, else 0x81, for every read code and object id.
C25_ConformityLevel ==
    (ex.kind = "fc43" /\ ex.served.kind = "data") =>
        LET ids == {ex.served.objects[i][1] : i \in 1..Len(ex.served.objects)}
        IN  ex.served.data[3] = (IF \E id \in ids : id > 128 THEN 131
                                 ELSE IF \E id \in ids : id >= 3 /\ id <= 128 THEN 130
                                 ELSE 129)

-----------------------------------------------------------------------------
(* The client's wait, its timer and destroy(): claims                      *)

\* the request issued last
lastRequest == Len(reqs)

\* C26: the client registers the wait with the framer before it writes the
\* request and arms the timeout timer after the write: from the moment the
\* request was handed to the transport the wait of a unicast request is in
\* place, so that a burst arriving at any moment after the write was issued
\* is framed against the request's pre-checks
C26_WaitBeforeWrite ==
    /\ [](\A i \in 1..Len(reqs) :
            (i = lastRequest /\ ~broadcast(reqs[i].unit) /\ reqs[i].pc = "writing")
                => waiting = <<i>>)
    /\ [][\A i \in 1..Len(reqs) :
            (i = lastRequest /\ ~broadcast(reqs[i].unit) /\ reqs[i].state = "pending"
             /\ reqs[i].pc \in {"writing", "written"} /\ bufferRx' # bufferRx /\ bufferRx' # <<>>)
                => waiting = <<i>>]_vars

\* C27: destroy() with a request in flight detaches the framer and cancels
\* every timer, the pending request's timeout included: once destroyed no
\* timer is armed, and a promise pending then is never resolved and never
\* rejected with 'Timeout'
C27_DestroyCancels ==
    /\ [](destroyed =>
            /\ ~timerThreePointFive
            /\ \A i \in 1..Len(reqs) : reqs[i].timer # "armed")
    /\ [][\A i \in 1..Len(reqs) :
            (destroyed /\ reqs[i].state = "pending")
                => /\ reqs'[i].state # "fulfilled"
                   /\ reqs'[i].error # "Timeout"]_vars

-----------------------------------------------------------------------------
(* The MBAP transaction counter: claim                                     *)

\* C28: the transaction counter of the TCP layer starts at 1 and stays in
\* 1..255 whatever is encoded; the buffer of an ADU without a transaction id
\* carries the counter's value before the call, the buffer of an ADU with a
\* transaction id carries that id; every call of encode advances the
\* counter by one, 255 wrapping to 1
C28_TransactionCounter ==
    /\ [](layer.variant = "TCP" =>
            /\ layer.transactionId \in 1..255
            /\ encoded = <<>> => layer.transactionId = 1
            /\ encoded # <<>> =>
                 readUInt16BE(encoded[1].buffer, 0) =
                     IF encoded[1].adu.transaction = <<>> THEN encoded[1].before
                     ELSE encoded[1].adu.transaction[1])
    /\ [][encoded' # encoded =>
            /\ encoded'[1].before = layer.transactionId
            /\ layer'.transactionId =
                 IF layer.transactionId = 255 THEN 1 ELSE layer.transactionId + 1]_vars

\* the counter wrapped from 255 to 1 on an ADU that carried its own id
C28_Witness ==
    /\ encoded # <<>>
    /\ encoded[1].before = 255
    /\ encoded[1].adu.transaction = <<4660>>
    /\ readUInt16BE(encoded[1].buffer, 0) = 4660
    /\ layer.transactionId = 1

-----------------------------------------------------------------------------
(* The pre-check loop of the three framers: claim                          *)

\* the pre-checks in list order, the first that does not pass deciding:
\* false is 'Invalid response', undefined 'Insufficient data length', a
\* number N 'Insufficient data length' for fewer than N data bytes and
\* 'Invalid response' for more
RECURSIVE PreCheckRule(_, _)
PreCheckRule(checks, frame) ==
    IF checks = <<>> THEN ""
    ELSE LET res == check(Head(checks), frame)
         IN  CASE res.type = "undefined" -> "Insufficient data length"
               [] res.type = "number" ->
                    IF Len(frame.data) < res.val THEN "Insufficient data length"
                    ELSE IF Len(frame.data) > res.val THEN "Invalid response"
                    ELSE PreCheckRule(Tail(checks), frame)
               [] OTHER ->
                    IF res.val = 0 THEN "Invalid response"
                    ELSE PreCheckRule(Tail(checks), frame)

\* the pre-checks first, the checksum after them
RuleThenChecksum(checks, frame, passed, message) ==
    IF PreCheckRule(checks, frame) # "" THEN PreCheckRule(checks, frame)
    ELSE IF passed THEN "" ELSE message

\* the characters of an ASCII burst that is one frame, ':' to CR LF
charsOf(data) == SubSeq(data, 2, Len(data) - 2)

\* C29: with a wait registered, the outcome of framing a burst that decodes
\* to a tentative frame is the outcome of the pre-checks taken in order
\* (false: 'Invalid response'; undefined: 'Insufficient data length'; a
\* number N: 'Insufficient data length' for fewer than N data bytes,
\* 'Invalid response' for more, the next check for exactly N), and the
\* checksum counts only when every pre-check has passed; in each variant
C29_PreCheckOrder ==
    layer.waitingResponse # <<>> =>
        \A data \in LayerBursts(layer.variant) :
            CASE layer.variant = "RTU" ->
                   LET buffer == layer.bufferRx \o data
                       frame  == [unit |-> buffer[1], fc |-> buffer[2],
                                  data |-> SubSeq(buffer, 3, Len(buffer) - 2)]
                   IN  Len(buffer) >= 4 =>
                         framing(buffer, checksOf(layer)).error
                           = RuleThenChecksum(checksOf(layer), frame,
                                 readUInt16LE(buffer, Len(buffer) - 2)
                                     = crc(SubSeq(buffer, 1, Len(buffer) - 2)),
                                 "CRC check failed")
              [] layer.variant = "TCP" ->
                   LET frame == [unit |-> data[7], fc |-> data[8],
                                 data |-> SubSeq(data, 9, Len(data))]
                   IN  (Len(data) >= 8 /\ framingTcp(data, <<>>).error = "") =>
                         framingTcp(data, checksOf(layer)).error
                           = RuleThenChecksum(checksOf(layer), frame, TRUE, "")
              [] layer.variant = "ASCII" ->
                   LET buffer == asciiBytes(charsOf(data))
                       frame  == [unit |-> buffer[1], fc |-> buffer[2],
                                  data |-> SubSeq(buffer, 3, Len(buffer) - 1)]
                   IN  (Len(data) >= 9 /\ Len(charsOf(data)) % 2 = 0) =>
                         framingAscii(charsOf(data), checksOf(layer)).error
                           = RuleThenChecksum(checksOf(layer), frame,
                                 buffer[Len(buffer)] = lrc(SubSeq(buffer, 1, Len(buffer) - 1)),
                                 "LRC check failed")

-----------------------------------------------------------------------------
(* What a framer hands to the wait's callback: claim                       *)

\* an ASCII burst that is one frame from ':' to CR LF
OneAsciiFrame(data) ==
    /\ Len(data) >= 3
    /\ data[1] = CHAR_CODE.COLON
    /\ data[Len(data) - 1] = CHAR_CODE.CR
    /\ data[Len(data)] = CHAR_CODE.LF
    /\ \A k \in 2..(Len(data) - 2) : data[k] \notin {CHAR_CODE.COLON, CHAR_CODE.CR}

\* the step is the layer's handleData on the burst data
Handled(data) ==
    /\ layer' = handleData(layer, log, data).layer
    /\ log' = handleData(layer, log, data).log

\* the step handed exactly one outcome, with this error, to the callback of
\* the wait, whose request is settled by it, and the wait is over
Delivered(error) ==
    /\ Len(log') = Len(log) + 1
    /\ SubSeq(log', 1, Len(log)) = log
    /\ log'[Len(log')].via = "callback"
    /\ log'[Len(log')].error = error
    /\ log'[Len(log')].req[1].state # "pending"
    /\ layer'.waitingResponse = <<>>

\* C30: with a wait registered, the RTU layer keeps the outcome
\* 'Insufficient data length' to itself: nothing is delivered, the wait
\* stays, the bytes stay in the buffer, and the next burst is appended and
\* the whole buffer framed again; any other outcome goes to the callback
\* once and empties the buffer.  The ASCII and the MBAP layer hand the
\* outcome of every decode attempt to the callback, 'Insufficient data
\* length' included, which settles the client's request.
C30_InsufficientData ==
    /\ [][(layer.variant = "RTU" /\ layer.waitingResponse # <<>> /\ LayerReceive) =>
            \A data \in RtuBursts :
                Handled(data) =>
                    LET buffer == layer.bufferRx \o data
                        res    == framing(buffer, checksOf(layer))
                    IN  IF res.error = "Insufficient data length"
                        THEN /\ log' = log
                             /\ layer'.waitingResponse = layer.waitingResponse
                             /\ layer'.bufferRx = buffer
                        ELSE /\ Delivered(res.error)
                             /\ log'[Len(log')].frame = res.frame
                             /\ layer'.bufferRx = <<>>]_vars
    /\ [][(layer.variant = "TCP" /\ layer.waitingResponse # <<>> /\ LayerReceive) =>
            \A data \in TcpBursts :
                Handled(data) => Delivered(framingTcp(data, checksOf(layer)).error)]_vars
    /\ [][(layer.variant = "ASCII" /\ layer.waitingResponse # <<>> /\ layer.status = "idle"
           /\ LayerReceive) =>
            \A data \in AsciiBursts :
                (Handled(data) /\ OneAsciiFrame(data)) =>
                    Delivered(framingAscii(charsOf(data), checksOf(layer)).error)]_vars

\* the RTU layer holds the first three bytes of a response, the wait still
\* registered and nothing delivered
C30_Witness ==
    /\ layer.variant = "RTU"
    /\ layer.waitingResponse # <<>>
    /\ Len(layer.bufferRx) = 3
    /\ framing(layer.bufferRx, checksOf(layer)).error = "Insufficient data length"
    /\ log = <<>>

-----------------------------------------------------------------------------
(* The ASCII framer on a byte stream: claims                               *)

\* one byte through the state table: IDLE ':' -> RECEPTION, accumulator
\* empty; RECEPTION ':' -> accumulator empty, CR -> WAITING_END, any other
\* byte appended; WAITING_END ':' -> RECEPTION, accumulator empty, LF ->
\* the accumulator decoded and IDLE, any other byte -> IDLE
TableStep(t, byte) ==
    CASE t.status = "idle" ->
           IF byte = 58 THEN [t EXCEPT !.status = "reception", !.frame = <<>>] ELSE t
      [] t.status = "reception" ->
           IF byte = 58 THEN [t EXCEPT !.frame = <<>>]
           ELSE IF byte = 13 THEN [t EXCEPT !.status = "waiting end"]
           ELSE [t EXCEPT !.frame = Append(@, byte)]
      [] t.status = "waiting end" ->
           IF byte = 58 THEN [t EXCEPT !.status = "reception", !.frame = <<>>]
           ELSE IF byte = 10 THEN [t EXCEPT !.status = "idle", !.decoded = Append(@, t.frame)]
           ELSE [t EXCEPT !.status = "idle"]

RECURSIVE TableRun(_, _)
TableRun(t, data) ==
    IF data = <<>> THEN t ELSE TableRun(TableStep(t, Head(data)), Tail(data))

\* the bytes of the burst a step delivered
Burst == SubSeq(inbound.stream, inbound.pos + 1, inbound'.pos)

\* the accumulators whose decoded bytes end in their LRC
RECURSIVE WithValidLrc(_)
WithValidLrc(frames) ==
    IF frames = <<>> THEN <<>>
    ELSE (IF Len(Head(frames)) >= 6 /\ Len(Head(frames)) % 2 = 0
             /\ ChecksumValid("ASCII", Head(frames))
          THEN <<Head(frames)>> ELSE <<>>) \o WithValidLrc(Tail(frames))

\* C31: whatever the bursts a byte stream arrives in, the ASCII framer's
\* status and accumulator after a burst are those the state table gives
\* for its bytes; the accumulator is decoded only on LF in WAITING_END, and
\* the frames emitted (no wait being registered) are, in order, the
\* decoded accumulators with a valid LRC
C31_AsciiStateTable ==
    [][(layer.variant = "ASCII" /\ StreamDeliver) =>
          LET t == TableRun([status |-> layer.status, frame |-> layer.frame, decoded |-> <<>>],
                            Burst)
              valid == WithValidLrc(t.decoded)
          IN  /\ layer'.status = t.status
              /\ t.status # "idle" => layer'.frame = t.frame
              /\ t.decoded = <<>> => log' = log
              /\ layer.waitingResponse = <<>> =>
                    /\ Len(log') = Len(log) + Len(valid)
                    /\ SubSeq(log', 1, Len(log)) = log
                    /\ \A k \in 1..Len(valid) :
                          /\ log'[Len(log) + k].via = "framing"
                          /\ log'[Len(log) + k].error = ""
                          /\ log'[Len(log) + k].buffer = valid[k]]_vars

\* a frame cut off after its CR by another byte than LF was not decoded;
\* the LF after it was passed over in IDLE and the next frame emitted
C31_Witness ==
    /\ layer.variant = "ASCII"
    /\ inbound.stream = SubSeq(FrameA, 1, Len(FrameA) - 1) \o <<48, CHAR_CODE.LF>> \o FrameB
    /\ inbound.pos = Len(inbound.stream)
    /\ Len(log) = 1
    /\ log[1].via = "framing"
    /\ log[1].frame = [unit |-> 1, fc |-> 4, data |-> <<2, 174, 65>>]
    /\ layer.status = "idle"

\* the bytes delivered so far, handed to a new ASCII layer as one burst
InOneBurst ==
    handleDataAscii([NoLayer EXCEPT !.variant = "ASCII"], <<>>,
                    SubSeq(inbound.stream, 1, inbound.pos))

\* C38: with no wait registered and the line never closed, the frames the ASCII framer has emitted
\* (unit, fc and data, in order) are those it emits when the same bytes
\* arrive as one burst, wherever the bursts were cut
C38_SplitInvariance ==
    (layer.variant = "ASCII" /\ layer.waitingResponse = <<>> /\ inbound.from = 0
     /\ \A k \in 1..Len(log) : log[k].via = "framing") =>
        /\ Len(log) = Len(InOneBurst.log)
        /\ \A k \in 1..Len(log) : log[k].frame = InOneBurst.log[k].frame

\* two frames arrived in five bursts or more and were emitted in order
C38_Witness ==
    /\ layer.variant = "ASCII"
    /\ inbound.stream = FrameA \o FrameB
    /\ inbound.pos = Len(inbound.stream)
    /\ inbound.bursts >= 5
    /\ Len(log) = 2
    /\ log[1].frame = [unit |-> 17, fc |-> 3, data |-> <<0>>]
    /\ log[2].frame = [unit |-> 1, fc |-> 4, data |-> <<2, 174, 65>>]

\* the characters of the hexadecimal digits, 0-9, A-F and a-f
HexDigitChars == (48..57) \cup (65..70) \cup (97..102)

\* C39: the ASCII framer delivers no frame whose characters between ':'
\* and CR include one that is not a hexadecimal digit; noise in the unit
\* field is not decoded as unit 0
C39_OnlyHexDigits ==
    layer.variant = "ASCII" =>
        \A k \in 1..Len(log) :
            log[k].error = "" =>
                \A j \in 1..Len(log[k].buffer) : log[k].buffer[j] \in HexDigitChars

-----------------------------------------------------------------------------
(* The RTU framer without a wait, close and startWaitingResponse: claims   *)

\* the log with the frame of a framing outcome emitted, if it has one
Emitted(lg, res) ==
    IF res.error = "" THEN Len(lg) = Len(log) + 1 /\ SubSeq(lg, 1, Len(log)) = log
                           /\ lg[Len(lg)].via = "framing" /\ lg[Len(lg)].frame = res.frame
    ELSE lg = log

\* C32: an RTU layer with no wait registered.  With a 3.5T interval other
\* than 0 a burst is appended to the buffer and sets the timer, nothing
\* being framed; when the timer expires the whole buffer is framed, at most
\* one frame is emitted and the buffer is left empty.  With the interval 0
\* each burst is framed at once, on its own, and the buffer left empty.
C32_QuietPeriod ==
    /\ [][(layer.variant = "RTU" /\ layer.waitingResponse = <<>> /\ layer.threePointFiveT # 0
           /\ StreamDeliver) =>
            /\ layer'.bufferRx = layer.bufferRx \o Burst
            /\ layer'.timerThreePointFive
            /\ log' = log]_vars
    /\ [][(layer.variant = "RTU" /\ layer.waitingResponse = <<>> /\ LayerThreePointFive) =>
            /\ Emitted(log', framing(layer.bufferRx, <<>>))
            /\ layer'.bufferRx = <<>>
            /\ ~layer'.timerThreePointFive]_vars
    /\ [][(layer.variant = "RTU" /\ layer.waitingResponse = <<>> /\ layer.threePointFiveT = 0
           /\ StreamDeliver) =>
            /\ Emitted(log', framing(Burst, <<>>))
            /\ layer'.bufferRx = <<>>
            /\ ~layer'.timerThreePointFive]_vars

\* sub is a run of consecutive elements of seq
RunOf(sub, seq) ==
    \E i \in 1..(Len(seq) + 1) :
        /\ i + Len(sub) - 1 <= Len(seq)
        /\ SubSeq(seq, i, i + Len(sub) - 1) = sub

\* the bytes delivered since the last close or startWaitingResponse
SinceReset == SubSeq(inbound.stream, inbound.from + 1, inbound.pos)

\* C33: a close and a call of startWaitingResponse leave the RTU layer with
\* an empty buffer and no 3.5T timer and the ASCII layer in IDLE with an
\* empty accumulator; what the layers hold and every frame they decode
\* afterwards is made of bytes received after it
C33_ResetOnCloseAndWait ==
    /\ [][(StreamClose \/ StreamWait) =>
            /\ layer.variant = "RTU" => layer'.bufferRx = <<>> /\ ~layer'.timerThreePointFive
            /\ layer.variant = "ASCII" => layer'.status = "idle" /\ layer'.frame = <<>>]_vars
    /\ [](layer.variant = "RTU" => RunOf(layer.bufferRx, SinceReset))
    /\ [](layer.variant = "ASCII" /\ layer.status # "idle" => RunOf(layer.frame, SinceReset))
    /\ [][\A k \in (Len(log) + 1)..Len(log') :
            RunOf(log'[k].buffer, SubSeq(inbound'.stream, inbound'.from + 1, inbound'.pos))]_vars

\* a wait was registered after the first three bytes of a response with a
\* wrong CRC; the rest of it and the response behind it arrived, and the
\* wait's callback got the response
C33_Witness ==
    /\ layer.variant = "RTU"
    /\ inbound.from = 3
    /\ inbound.pos = Len(inbound.stream)
    /\ Len(inbound.stream) = 2 * Len(RtuResponse)
    /\ Len(log) = 1
    /\ log[1].via = "callback"

-----------------------------------------------------------------------------
(* checkRange: claims                                                      *)

\* every queried point lies in the interval iv
AllIn(value, iv) == \A i \in 1..Len(value) : iv[1] <= value[i] /\ value[i] <= iv[2]

\* C34: checkRange is true when no range is configured; for one interval
\* [lo, hi] with lo < hi it is true exactly when every queried point lies
\* in it; for a list of intervals it is true exactly when some interval of
\* the list with lo < hi holds every queried point
C34_CheckRange ==
    ex.kind = "checkRange" =>
        CASE ex.range.kind = "undefined" -> ex.result
          [] ex.range.kind = "single" ->
               ex.range.ivs[1][1] < ex.range.ivs[1][2] =>
                   (ex.result <=> AllIn(ex.value, ex.range.ivs[1]))
          [] ex.range.kind = "list" ->
               ex.result <=> \E k \in 1..Len(ex.range.ivs) :
                                 /\ ex.range.ivs[k][1] < ex.range.ivs[k][2]
                                 /\ AllIn(ex.value, ex.range.ivs[k])

\* C40: with a range configured (one interval or a list, [a, a] and the
\* empty list included) checkRange is false when a queried point lies in
\* none of the configured intervals
C40_ConfiguredRangeCloses ==
    (ex.kind = "checkRange" /\ ex.range.kind # "undefined"
     /\ \E i \in 1..Len(ex.value) :
            \A k \in 1..Len(ex.range.ivs) : ~AllIn(<<ex.value[i]>>, ex.range.ivs[k]))
        => ~ex.result

-----------------------------------------------------------------------------
(* The reply closure of the server: claim                                  *)

\* C35: for the frame received and each model it went to, the reply
\* closure is invoked at most once, whichever way the dispatch goes; and
\* for a unicast request with a valid PDU grammar it has been invoked
\* exactly once, one buffer handed to the transport, when the dispatch has
\* come to its end
C35_ReplyOnce ==
    rx # <<>> =>
        \A i \in 1..Len(tasks) :
            /\ tasks[i].replies <= 1
            /\ rx[1].unit # 0 => Len(sent) <= 1
            /\ (rx[1].unit # 0 /\ Grammar(rx[1]) /\ tasks[i].pc \in {"done", "crashed"}) =>
                  tasks[i].replies = 1 /\ Len(sent) = 1

-----------------------------------------------------------------------------
(* The transaction id of a response: claim                                 *)

\* C36: over MBAP a pending request is resolved only by a frame carrying
\* the transaction id written into that request; the late response to a
\* request that timed out does not resolve the request issued after it
C36_TransactionMatch ==
    [][(layer.variant = "TCP" /\ layer.waitingResponse # <<>> /\ Len(log') = Len(log) + 1
        /\ log'[Len(log')].via = "callback"
        /\ log'[Len(log')].req[1].state = "fulfilled") =>
            log'[Len(log')].transaction = <<encoded[1].before>>]_vars

-----------------------------------------------------------------------------
(* Device identification read as a stream: claim                           *)

\* the ids packed by the responses, in the order received
StreamIds(responses) == Flatten([i \in 1..Len(responses) |-> responses[i].ids])

\* C37: a stream read of the device identification from object id 0 with
\* read code 1, 2 or 3, repeated from next-object-id while more-follows is
\* 0xFF, terminates: every response carries at least one object,
\* next-object-id strictly increases from one response to the next, the
\* requests are no more than the objects, and the read ends with
\* more-follows 0x00 having delivered every object of the model exactly once
C37_StreamTerminates ==
    (ex # NoExchange /\ ex.kind = "stream") =>
        LET rs == ex.responses
        IN  /\ \A i \in 1..Len(rs) : rs[i].kind = "data" /\ Len(rs[i].ids) >= 1
            /\ \A i \in 1..(Len(rs) - 1) : rs[i].data[5] < rs[i + 1].data[5] \/ rs[i + 1].data[4] = 0
            /\ \A i \in 1..Len(rs) : Len(rs) <= Len(rs[i].objects)
            /\ ex.done =>
                  /\ rs[Len(rs)].data[4] = 0
                  /\ \A k \in 1..Len(rs[1].objects) :
                        Cardinality({j \in 1..Len(StreamIds(rs)) :
                                        StreamIds(rs)[j] = rs[1].objects[k][1]}) = 1
                  /\ Len(StreamIds(rs)) = Len(rs[1].objects)

=============================================================================
